---- MODULE Spec2Model ----
(***************************************************************************)
(* State-machine model of the dataset exporters of blender-gen-dataset.    *)
(*                                                                         *)
(* Numbers.  The exporters work on float64 matrices.  The model keeps them *)
(* exact: a pose matrix is a record [den, m] standing for the 3x4 matrix   *)
(* m / den with integer m, and a quaternion component s * sqrt(sq/(4*den)) *)
(* is kept as the pair [sgn |-> s, sq |-> sq].  Rounding of float64 is not *)
(* modelled.                                                               *)
(*                                                                         *)
(* File names.  A name is a record [digits, rest]: the leading run of      *)
(* decimal digits (a sequence of 0..9) and the text after it.              *)
(***************************************************************************)
EXTENDS Integers, Sequences, FiniteSets, TLC

VARIABLES
    exporter,        \* which script's main() (or which function) runs
    pc,              \* position of main(): "start", "loop", "done", "raised", "exit"
    in_dir,          \* names of the files of the input (batch) directory
    in_text,         \* contents of the pose files of in_dir: a matrix or BadShape
    todo,            \* view indices the for-loop has still to visit, ascending
    img_id,          \* local img_id of main()
    img_dir,         \* names of the files in <out>/images
    mask_dir,        \* names of the files in <out>/masks
    sparse,          \* files of the sparse model directory: name -> lines
    db_rows,         \* rows handed to db.add_image, in call order
    db_state,        \* "none", "open" (uncommitted) or "committed"
    log,             \* lines printed, in order
    rot_in,          \* argument of the quaternion extraction
    q_out,           \* its result
    split,           \* args.split of the Tanks&Temples exporter, a fraction
    train_set,       \* train_set of the Tanks&Temples exporter
    test_set,        \* test_set of the Tanks&Temples exporter
    rgb_dir,         \* names of the files in <out>/rgb
    pose_dir,        \* names of the files in <out>/pose
    out_top,         \* names of the files directly in <out> of the NSVF exporters
    idr_image_dir,   \* names of the files in <out>/image of the IDR exporter
    idr_mask_dir,    \* names of the files in <out>/mask of the IDR exporter
    world_mats,      \* world_mats of the IDR exporter: key -> matrix
    scale_mats,      \* scale_mats of the IDR exporter: key -> matrix
    scale_template,  \* scale_template of the IDR exporter
    cameras_npz,     \* <out>/cameras.npz: key -> matrix, NoFile until saved
    scene_objects,   \* scene.objects: a sequence of objects
    plugin_cfg,      \* the plugin's configuration table
    out_files,       \* files a plugin wrote to output_path: name -> content
    pass_index,      \* pass_index of each scene object
    plugin_dir,      \* the plugin modules found by pkgutil.iter_modules
    plugins,         \* the plugin instances of main(), in list order
    N,               \* args['number_of_renders']
    view_i,          \* loop variable i of main()
    hook_k,          \* how many plugins the running for-plugin loop has called
    calls,           \* hooks and renders that have run, in order
    cam_in,          \* camera and render settings handed to the matrix helpers
    cam_out,         \* the matrix they returned
    rows_left,       \* rows the csv reader of process_batch has still to yield
    images,          \* images of process_batch
    poses,           \* poses of process_batch
    focal,           \* focal of process_batch
    all_images,      \* all_images of process_all_batches
    all_poses,       \* all_poses of process_all_batches
    focal_value,     \* focal_value of process_all_batches
    dataset_npz,     \* the output archive of assemble-dataset
    plug_self,       \* attributes of the plugin instance
    file_slots,      \* file_slots of the plugin's file-output node, in order
    slots_made,      \* how many slots file_slots.new has made
    view_cams,       \* camera data of the views of the run, in order
    plug_i,          \* index of the view the hooks are called for
    written,         \* writes to output_path, in order
    loc_in,          \* arguments of next_location_on_sphere
    loc_out,         \* what it returned or raised
    proj_index,      \* index of the view CameraProjectionMatrix is called for
    proj_seen        \* reader -> index under which it found the projection file

vars == <<exporter, pc, in_dir, in_text, todo, img_id, img_dir, mask_dir,
          sparse, db_rows, db_state, log, rot_in, q_out, split, train_set,
          test_set, rgb_dir, pose_dir, out_top, idr_image_dir, idr_mask_dir,
          world_mats, scale_mats, scale_template, cameras_npz,
          scene_objects, plugin_cfg, out_files, pass_index, plugin_dir,
          plugins, N, view_i, hook_k, calls, cam_in, cam_out, rows_left,
          images, poses, focal, all_images, all_poses, focal_value,
          dataset_npz, plug_self, file_slots, slots_made, view_cams, plug_i,
          written, loc_in, loc_out, proj_index, proj_seen>>

\* The state of each program, for the runs of the others.
colmapVars == <<img_id, img_dir, mask_dir, sparse, db_rows, db_state>>
qvecVars ==   <<rot_in, q_out>>
nsvfVars ==   <<split, train_set, test_set, rgb_dir, pose_dir, out_top>>
idrVars ==    <<idr_image_dir, idr_mask_dir, world_mats, scale_mats,
                scale_template, cameras_npz>>
sceneVars ==  <<scene_objects, plugin_cfg, out_files, pass_index>>
batchVars ==  <<plugin_dir, plugins, N, view_i, hook_k, calls>>
camVars ==    <<cam_in, cam_out>>
asmVars ==    <<rows_left, images, poses, focal, all_images, all_poses,
                focal_value, dataset_npz>>
plugVars ==   <<plug_self, file_slots, slots_made, view_cams, plug_i,
                written>>
sphereVars == <<loc_in, loc_out>>
projVars ==   <<proj_index, proj_seen>>

ColmapUnused ==
    /\ img_id = 0 /\ img_dir = {} /\ mask_dir = {} /\ sparse = <<>>
    /\ db_rows = <<>> /\ db_state = "none"
QvecUnused ==
    /\ rot_in = <<>> /\ q_out = <<>>
NsvfUnused ==
    /\ split = <<>> /\ train_set = {} /\ test_set = {} /\ rgb_dir = {}
    /\ pose_dir = {} /\ out_top = {}
IdrUnused ==
    /\ idr_image_dir = {} /\ idr_mask_dir = {} /\ world_mats = <<>>
    /\ scale_mats = <<>> /\ scale_template = <<>> /\ cameras_npz = <<>>
SceneUnused ==
    /\ scene_objects = <<>> /\ plugin_cfg = <<>> /\ out_files = <<>>
    /\ pass_index = <<>>
BatchUnused ==
    /\ plugin_dir = <<>> /\ plugins = <<>> /\ N = 0 /\ view_i = 0
    /\ hook_k = 0 /\ calls = <<>>
CamUnused ==
    /\ cam_in = <<>> /\ cam_out = <<>>
AsmUnused ==
    /\ rows_left = <<>> /\ images = <<>> /\ poses = <<>> /\ focal = <<>>
    /\ all_images = <<>> /\ all_poses = <<>> /\ focal_value = <<>>
    /\ dataset_npz = <<>>
PlugUnused ==
    /\ plug_self = <<>> /\ file_slots = <<>> /\ slots_made = 0
    /\ view_cams = <<>> /\ plug_i = 0 /\ written = <<>>
SphereUnused ==
    /\ loc_in = <<>> /\ loc_out = <<>>
ProjUnused ==
    /\ proj_index = 0 /\ proj_seen = <<>>

\* What a run of one program leaves alone, and where it finds it.
exceptColmap ==
    <<qvecVars, nsvfVars, idrVars, sceneVars, batchVars, camVars,
      asmVars, plugVars, sphereVars, projVars>>
exceptQvec ==
    <<colmapVars, nsvfVars, idrVars, sceneVars, batchVars, camVars,
      asmVars, plugVars, sphereVars, projVars>>
exceptNsvf ==
    <<colmapVars, qvecVars, idrVars, sceneVars, batchVars, camVars,
      asmVars, plugVars, sphereVars, projVars>>
exceptIdr ==
    <<colmapVars, qvecVars, nsvfVars, sceneVars, batchVars, camVars,
      asmVars, plugVars, sphereVars, projVars>>
exceptScene ==
    <<colmapVars, qvecVars, nsvfVars, idrVars, batchVars, camVars,
      asmVars, plugVars, sphereVars, projVars>>
exceptBatch ==
    <<colmapVars, qvecVars, nsvfVars, idrVars, sceneVars, camVars,
      asmVars, plugVars, sphereVars, projVars>>
exceptCam ==
    <<colmapVars, qvecVars, nsvfVars, idrVars, sceneVars, batchVars,
      asmVars, plugVars, sphereVars, projVars>>
exceptAsm ==
    <<colmapVars, qvecVars, nsvfVars, idrVars, sceneVars, batchVars,
      camVars, plugVars, sphereVars, projVars>>
exceptPlug ==
    <<colmapVars, qvecVars, nsvfVars, idrVars, sceneVars, batchVars,
      camVars, asmVars, sphereVars, projVars>>
exceptSphere ==
    <<colmapVars, qvecVars, nsvfVars, idrVars, sceneVars, batchVars,
      camVars, asmVars, plugVars, projVars>>
exceptProj ==
    <<colmapVars, qvecVars, nsvfVars, idrVars, sceneVars, batchVars,
      camVars, asmVars, plugVars, sphereVars>>

OnlyColmap ==
    /\ QvecUnused /\ NsvfUnused /\ IdrUnused /\ SceneUnused
    /\ BatchUnused /\ CamUnused /\ AsmUnused /\ PlugUnused
    /\ SphereUnused /\ ProjUnused
OnlyQvec ==
    /\ ColmapUnused /\ NsvfUnused /\ IdrUnused /\ SceneUnused
    /\ BatchUnused /\ CamUnused /\ AsmUnused /\ PlugUnused
    /\ SphereUnused /\ ProjUnused
OnlyNsvf ==
    /\ ColmapUnused /\ QvecUnused /\ IdrUnused /\ SceneUnused
    /\ BatchUnused /\ CamUnused /\ AsmUnused /\ PlugUnused
    /\ SphereUnused /\ ProjUnused
OnlyIdr ==
    /\ ColmapUnused /\ QvecUnused /\ NsvfUnused /\ SceneUnused
    /\ BatchUnused /\ CamUnused /\ AsmUnused /\ PlugUnused
    /\ SphereUnused /\ ProjUnused
OnlyScene ==
    /\ ColmapUnused /\ QvecUnused /\ NsvfUnused /\ IdrUnused
    /\ BatchUnused /\ CamUnused /\ AsmUnused /\ PlugUnused
    /\ SphereUnused /\ ProjUnused
OnlyBatch ==
    /\ ColmapUnused /\ QvecUnused /\ NsvfUnused /\ IdrUnused
    /\ SceneUnused /\ CamUnused /\ AsmUnused /\ PlugUnused
    /\ SphereUnused /\ ProjUnused
OnlyCam ==
    /\ ColmapUnused /\ QvecUnused /\ NsvfUnused /\ IdrUnused
    /\ SceneUnused /\ BatchUnused /\ AsmUnused /\ PlugUnused
    /\ SphereUnused /\ ProjUnused
OnlyAsm ==
    /\ ColmapUnused /\ QvecUnused /\ NsvfUnused /\ IdrUnused
    /\ SceneUnused /\ BatchUnused /\ CamUnused /\ PlugUnused
    /\ SphereUnused /\ ProjUnused
OnlyPlug ==
    /\ ColmapUnused /\ QvecUnused /\ NsvfUnused /\ IdrUnused
    /\ SceneUnused /\ BatchUnused /\ CamUnused /\ AsmUnused
    /\ SphereUnused /\ ProjUnused
OnlySphere ==
    /\ ColmapUnused /\ QvecUnused /\ NsvfUnused /\ IdrUnused
    /\ SceneUnused /\ BatchUnused /\ CamUnused /\ AsmUnused /\ PlugUnused
    /\ ProjUnused
OnlyProj ==
    /\ ColmapUnused /\ QvecUnused /\ NsvfUnused /\ IdrUnused
    /\ SceneUnused /\ BatchUnused /\ CamUnused /\ AsmUnused /\ PlugUnused
    /\ SphereUnused

(***************************************************************************)
(* Bounds of the model.                                                    *)
(***************************************************************************)
MaxViews == 3

(***************************************************************************)
(* Small helpers.                                                          *)
(***************************************************************************)
RECURSIVE SortedSeq(_)
\* sorted(S) for a finite set of integers
SortedSeq(S) ==
    IF S = {} THEN <<>>
    ELSE LET lo == CHOOSE a \in S : \A b \in S : a <= b
         IN  <<lo>> \o SortedSeq(S \ {lo})

RECURSIVE ParseInt(_)
\* int(m.group(1)) for a run of decimal digits
ParseInt(ds) ==
    IF ds = <<>> THEN 0
    ELSE 10 * ParseInt(SubSeq(ds, 1, Len(ds) - 1)) + ds[Len(ds)]

RECURSIVE DecDigits(_)
\* the decimal digits of n >= 0, without leading zeros ("0" for 0)
DecDigits(n) ==
    IF n < 10 THEN <<n>> ELSE DecDigits(n \div 10) \o <<n % 10>>

RECURSIVE ZeroPad(_, _)
ZeroPad(ds, width) ==
    IF Len(ds) >= width THEN ds ELSE ZeroPad(<<0>> \o ds, width)

\* f"{n:03d}"
Fmt03d(n) == ZeroPad(DecDigits(n), 3)

\* f"{n}"
FmtInt(n) == DecDigits(n)

Name(ds, rest) == [digits |-> ds, rest |-> rest]

(***************************************************************************)
(* File-name patterns.  The text after the digits is one of a few tokens;  *)
(* a pattern is the set of tokens it matches.                              *)
(***************************************************************************)
RenderRest == "_render.png"
MaskRest   == "_mask_0001.png"
ExtrRest   == "_camera_extrinsics.txt"
ProjTxtRest == "_camera_projection_matrix.txt"

\* ^(\d+)_render\.png$
RE_RENDER(f) == Len(f.digits) >= 1 /\ f.rest = RenderRest
\* ^(\d+)_mask_.*\.png$
RE_MASK(f) == Len(f.digits) >= 1 /\ f.rest = MaskRest
\* ^(\d+)_camera_extrinsics\.txt$
RE_EXTR(f) == Len(f.digits) >= 1 /\ f.rest = ExtrRest
\* ^(\d+)_camera_projection_matrix\.txt$  (scripts/to_colmap)
RE_PROJ(f) == Len(f.digits) >= 1 /\ f.rest = ProjTxtRest

(***************************************************************************)
(* Matrices.                                                               *)
(***************************************************************************)
\* A file np.loadtxt reads but whose shape is not the expected one.
BadShape == [shape |-> "bad"]
\* No such file.
NoFile == [shape |-> "none"]

Mat(den, rows) == [shape |-> "3x4", den |-> den, m |-> rows]

\* Pose files the input may hold.
PoseIdentity == Mat(1, << <<1, 0, 0, 1>>, <<0, 1, 0, 2>>, <<0, 0, 1, 3>> >>)
PoseQuarterZ == Mat(1, << <<0, -1, 0, 0>>, <<1, 0, 0, -1>>, <<0, 0, 1, 2>> >>)
\* the extrinsics of an unrotated host camera at (0, 0, -4): R = diag(1,-1,-1)
PoseFlip     == Mat(1, << <<1, 0, 0, 0>>, <<0, -1, 0, 0>>, <<0, 0, -1, 4>> >>)
\* rotation about x by atan2(4, 3), entries in fifths
PoseFifths   == Mat(5, << <<5, 0, 0, 5>>, <<0, 3, -4, 0>>, <<0, 4, 3, 10>> >>)

Sign(v) == IF v > 0 THEN 1 ELSE IF v < 0 THEN -1 ELSE 0
Max0(v) == IF v > 0 THEN v ELSE 0

\* A transposed-sign variant of the extraction (differences taken the other
\* way round).
qvec_transposed(M) ==
    LET R == M.m
    IN  << [sgn |-> 1, sq |-> Max0(M.den + R[1][1] + R[2][2] + R[3][3])],
           [sgn |-> Sign(R[2][3] - R[3][2]),
            sq  |-> Max0(M.den + R[1][1] - R[2][2] - R[3][3])],
           [sgn |-> Sign(R[3][1] - R[1][3]),
            sq  |-> Max0(M.den - R[1][1] + R[2][2] - R[3][3])],
           [sgn |-> Sign(R[1][2] - R[2][1]),
            sq  |-> Max0(M.den - R[1][1] - R[2][2] + R[3][3])] >>

\* qvec_from_matrix: (qw, qx, qy, qz), each sgn * sqrt(sq / (4 * den)).
\* np.sqrt(max(0, 1 + R00 + R11 + R22)) / 2 with R = m / den has the square
\* max(0, den + m00 + m11 + m22) / (4 * den); np.sign(0) is 0.
qvec_from_matrix(M) ==
    LET R == M.m
    IN  << [sgn |-> 1, sq |-> Max0(M.den + R[1][1] + R[2][2] + R[3][3])],
           [sgn |-> Sign(R[3][2] - R[2][3]),
            sq  |-> Max0(M.den + R[1][1] - R[2][2] - R[3][3])],
           [sgn |-> Sign(R[1][3] - R[3][1]),
            sq  |-> Max0(M.den - R[1][1] + R[2][2] - R[3][3])],
           [sgn |-> Sign(R[2][1] - R[1][2]),
            sq  |-> Max0(M.den - R[1][1] - R[2][2] + R[3][3])] >>

\* Rt[:3, 3]: the translation column, over the denominator of the matrix.
tvec_column(M) ==
    [den |-> M.den, v |-> <<M.m[1][4], M.m[2][4], M.m[3][4]>>]

\* -R @ t: both factors are over den, the product is over den * den.
tvec_minus_R_t(M) ==
    LET R == M.m
        t == <<M.m[1][4], M.m[2][4], M.m[3][4]>>
    IN  [den |-> M.den * M.den,
         v   |-> [i \in 1..3 |->
                    -(R[i][1] * t[1] + R[i][2] * t[2] + R[i][3] * t[3])]]

\* qvec_tvec_from_matrix of scripts/to_colmap: the same quaternion, and -R @ t.
qvec_tvec_from_matrix(M) ==
    [q |-> qvec_from_matrix(M), t |-> tvec_minus_R_t(M)]

(***************************************************************************)
(* The input (batch) directory of the COLMAP exporters.                    *)
(***************************************************************************)
IntrinsicsName == Name(<<>>, "camera_intrinsics.txt")

\* a well-formed 3x3 camera_intrinsics.txt
IntrK == [shape |-> "3x3", fx |-> 50, fy |-> 50, cx |-> 16, cy |-> 12]

ProjJsonRest == "_camera_projection_matrix.json"
MaskedRest   == "_masked_0001.png"

\* The pose file an exporter looks for.
PoseRest(ex) ==
    IF ex = "compat" THEN ExtrRest
    ELSE IF ex = "nsvf" THEN ProjJsonRest
    ELSE ProjTxtRest

\* What the batch may hold for one view: which files, and the pose file's text.
ViewChoices ==
    { [rgb |-> FALSE, mask |-> FALSE, pose |-> NoFile],
      [rgb |-> TRUE,  mask |-> FALSE, pose |-> NoFile],
      [rgb |-> TRUE,  mask |-> TRUE,  pose |-> NoFile],
      [rgb |-> FALSE, mask |-> FALSE, pose |-> PoseIdentity],
      [rgb |-> TRUE,  mask |-> FALSE, pose |-> PoseIdentity],
      [rgb |-> TRUE,  mask |-> TRUE,  pose |-> PoseQuarterZ],
      [rgb |-> TRUE,  mask |-> TRUE,  pose |-> PoseFlip],
      [rgb |-> TRUE,  mask |-> FALSE, pose |-> PoseFifths],
      [rgb |-> TRUE,  mask |-> FALSE, pose |-> BadShape] }

\* The files generate-batch.py and its plugins write for view i are named
\* f"{i:03d}_...".
BatchFiles(ch, poseRest) ==
    UNION { (IF ch[i].rgb THEN {Name(Fmt03d(i), RenderRest)} ELSE {})
            \cup (IF ch[i].mask THEN {Name(Fmt03d(i), MaskRest)} ELSE {})
            \cup (IF ch[i].pose # NoFile THEN {Name(Fmt03d(i), poseRest)} ELSE {})
          : i \in DOMAIN ch }

BatchText(ch, poseRest) ==
    [f \in {Name(Fmt03d(i), poseRest) : i \in {j \in DOMAIN ch : ch[j].pose # NoFile}}
        |-> ch[ParseInt(f.digits)].pose]

(***************************************************************************)
(* The scan of the input directory (both COLMAP exporters).                *)
(***************************************************************************)
\* kind of a file under the exporter's three patterns, "" when none matches
KindOf(f, ex) ==
    IF RE_RENDER(f) THEN "rgb"
    ELSE IF RE_MASK(f) THEN "mask"
    ELSE IF ex = "compat" /\ RE_EXTR(f) THEN "extr"
    ELSE IF ex = "scripts" /\ RE_PROJ(f) THEN "proj"
    ELSE ""

\* entries: idx -> (kind -> file), built by entries.setdefault(idx, {})[kind] = f
Entries(dir, ex) ==
    LET hits == {f \in dir : KindOf(f, ex) # ""}
        idxs == {ParseInt(f.digits) : f \in hits}
    IN  [idx \in idxs |->
            LET mine == {f \in hits : ParseInt(f.digits) = idx}
            IN  [k \in {KindOf(f, ex) : f \in mine} |->
                    CHOOSE f \in mine : KindOf(f, ex) = k]]

\* Visiting the views from the highest index down.
DescendingSeq(S) ==
    LET up == SortedSeq(S)
    IN  [k \in 1 .. Len(up) |-> up[Len(up) + 1 - k]]

\* for idx in sorted(entries)
LoopOrder(S) == SortedSeq(S)

CommentLine == [kind |-> "comment"]
BlankLine   == [kind |-> "blank"]

CameraLine(camera_id, K) ==
    [kind |-> "camera", camera_id |-> camera_id, model |-> "OPENCV",
     W |-> 2 * K.cx, H |-> 2 * K.cy,
     fx |-> K.fx, fy |-> K.fy, cx |-> K.cx, cy |-> K.cy]

\* " ".join(map(str, [img_id, *q, *t, camera_id, dst_name])); str() of a
\* float64 is its shortest round-trip form, so the fields are kept as values.
ImageLine(id, q, t, camera_id, name) ==
    [kind |-> "data", image_id |-> id, q |-> q, t |-> t,
     camera_id |-> camera_id, name |-> name]

Warn(idx) == [level |-> "WARN", idx |-> idx]
Info(what, name) == [level |-> "INFO", what |-> what, name |-> name]
Ok == [level |-> "OK"]

\* load_intrinsics(in_dir / "camera_intrinsics.txt") returns: the file is there
\* (np.loadtxt raises otherwise) and holds a 3x3 matrix (ValueError otherwise).
load_intrinsics_ok ==
    IntrinsicsName \in in_dir /\ in_text[IntrinsicsName].shape = "3x3"

\* load_extrinsics / load_inverted_projection return the 3x4 matrix of the
\* file; a file of another shape raises ValueError.  (The np.linalg.inv of
\* load_inverted_projection follows its return statement and never runs.)
load_pose_ok(f) == in_text[f].shape = "3x4"

\* db.add_camera on the freshly created database returns row id 1.
NewCameraId == 1

CamerasTxt(camera_id) == <<CommentLine, CameraLine(camera_id, in_text[IntrinsicsName])>>

(***************************************************************************)
(* compat/to_colmap/to_colmap.py, main().                                  *)
(***************************************************************************)
\* Lines 72-123: directories, database, intrinsics, the three text files and
\* the scan of the input directory.
CompatSetup ==
    /\ exporter = "compat" /\ pc = "start"
    /\ IF ~load_intrinsics_ok
       THEN /\ pc' = "raised"
            /\ db_state' = "open"
            /\ UNCHANGED <<todo, sparse, db_rows>>
       ELSE /\ pc' = "loop"
            /\ db_state' = "open"
            /\ db_rows' = <<[table |-> "cameras", camera_id |-> NewCameraId]>>
            /\ sparse' = ("cameras.txt" :> CamerasTxt(NewCameraId))
                          @@ ("images.txt" :> <<CommentLine>>)
                          @@ ("points3D.txt" :> <<>>)
            /\ todo' = LoopOrder(DOMAIN Entries(in_dir, "compat"))
    /\ img_id' = 0
    /\ UNCHANGED <<exporter, in_dir, in_text, img_dir, mask_dir, log>>
    /\ UNCHANGED exceptColmap

\* Registering the image under its view index.
AddImageViewIndex(idx) == idx

\* The image_id handed to db.add_image for the view being exported.
AddImageId(idx) == img_id

\* Lines 124-164: one pass of the loop over sorted(entries).
CompatView ==
    /\ exporter = "compat" /\ pc = "loop" /\ todo # <<>>
    /\ LET idx == Head(todo)
           e   == Entries(in_dir, "compat")[idx]
       IN  IF "rgb" \notin DOMAIN e \/ "extr" \notin DOMAIN e
           THEN /\ log' = Append(log, Warn(idx))
                /\ todo' = Tail(todo)
                /\ UNCHANGED <<pc, img_id, img_dir, mask_dir, sparse, db_rows>>
           ELSE LET dst_name == e["rgb"]
                    mask_name == Name(dst_name.digits, dst_name.rest \o ".png")
                    hasMask == "mask" \in DOMAIN e
                    Rt == in_text[e["extr"]]
                IN  /\ db_rows' = Append(db_rows,
                                     [table |-> "images", name |-> dst_name,
                                      camera_id |-> NewCameraId,
                                      image_id |-> AddImageId(idx)])
                    /\ img_dir' = img_dir \cup {dst_name}
                    /\ mask_dir' = IF hasMask THEN mask_dir \cup {mask_name}
                                   ELSE mask_dir
                    /\ IF ~load_pose_ok(e["extr"])
                       THEN /\ pc' = "raised"
                            /\ log' = log \o <<Info("db", dst_name), Info("rgb", dst_name)>>
                                          \o (IF hasMask THEN <<Info("mask", mask_name)>>
                                              ELSE <<>>)
                            /\ UNCHANGED <<todo, img_id, sparse>>
                       ELSE /\ sparse' = [sparse EXCEPT !["images.txt"] =
                                            @ \o <<ImageLine(img_id, qvec_from_matrix(Rt),
                                                             tvec_column(Rt), NewCameraId,
                                                             dst_name),
                                                   BlankLine>>]
                            /\ log' = log \o <<Info("db", dst_name), Info("rgb", dst_name)>>
                                          \o (IF hasMask THEN <<Info("mask", mask_name)>>
                                              ELSE <<>>)
                            /\ img_id' = img_id + 1
                            /\ todo' = Tail(todo)
                            /\ pc' = pc
    /\ UNCHANGED <<exporter, in_dir, in_text, db_state>>
    /\ UNCHANGED exceptColmap

\* Lines 166-168: commit, close, report.
CompatFinish ==
    /\ exporter = "compat" /\ pc = "loop" /\ todo = <<>>
    /\ db_state' = "committed"
    /\ log' = Append(log, Ok)
    /\ pc' = "done"
    /\ UNCHANGED <<exporter, in_dir, in_text, todo, img_id, img_dir, mask_dir,
                   sparse, db_rows>>
    /\ UNCHANGED exceptColmap

(***************************************************************************)
(* scripts/to_colmap/to_colmap.py, main().                                 *)
(***************************************************************************)
\* Lines 66-99: directories, intrinsics, cameras.txt, the images.txt header
\* and the scan of the input directory.
ScriptsSetup ==
    /\ exporter = "scripts" /\ pc = "start"
    /\ IF ~load_intrinsics_ok
       THEN /\ pc' = "raised"
            /\ UNCHANGED <<todo, sparse>>
       ELSE /\ pc' = "loop"
            /\ sparse' = ("cameras.txt" :> CamerasTxt(1))
                          @@ ("images.txt" :> <<CommentLine>>)
            /\ todo' = LoopOrder(DOMAIN Entries(in_dir, "scripts"))
    /\ img_id' = 0
    /\ UNCHANGED <<exporter, in_dir, in_text, img_dir, mask_dir, db_rows,
                   db_state, log>>
    /\ UNCHANGED exceptColmap

\* Lines 100-119: one pass of the loop over sorted(entries).
ScriptsView ==
    /\ exporter = "scripts" /\ pc = "loop" /\ todo # <<>>
    /\ LET idx == Head(todo)
           e   == Entries(in_dir, "scripts")[idx]
       IN  IF "rgb" \notin DOMAIN e \/ "proj" \notin DOMAIN e
           THEN /\ log' = Append(log, Warn(idx))
                /\ todo' = Tail(todo)
                /\ UNCHANGED <<pc, img_id, img_dir, mask_dir, sparse>>
           ELSE LET dst_name == Name(Fmt03d(idx), ".png")
                    mask_name == Name(dst_name.digits, dst_name.rest \o ".png")
                    M == in_text[e["proj"]]
                IN  /\ img_dir' = img_dir \cup {dst_name}
                    /\ mask_dir' = IF "mask" \in DOMAIN e
                                   THEN mask_dir \cup {mask_name} ELSE mask_dir
                    /\ IF ~load_pose_ok(e["proj"])
                       THEN /\ pc' = "raised"
                            /\ UNCHANGED <<todo, img_id, sparse>>
                       ELSE /\ sparse' = [sparse EXCEPT !["images.txt"] =
                                            @ \o <<ImageLine(img_id,
                                                       qvec_tvec_from_matrix(M).q,
                                                       qvec_tvec_from_matrix(M).t,
                                                       1, dst_name),
                                                   BlankLine>>]
                            /\ img_id' = img_id + 1
                            /\ todo' = Tail(todo)
                            /\ pc' = pc
                    /\ UNCHANGED log
    /\ UNCHANGED <<exporter, in_dir, in_text, db_rows, db_state>>
    /\ UNCHANGED exceptColmap

\* Line 121.
ScriptsFinish ==
    /\ exporter = "scripts" /\ pc = "loop" /\ todo = <<>>
    /\ log' = Append(log, Ok)
    /\ pc' = "done"
    /\ UNCHANGED <<exporter, in_dir, in_text, todo, img_id, img_dir, mask_dir,
                   sparse, db_rows, db_state>>
    /\ UNCHANGED exceptColmap

(***************************************************************************)
(* The COLMAP exporters run on any batch of up to MaxViews views.          *)
(***************************************************************************)
IntrinsicsChoices == {IntrK, BadShape, NoFile}

InitColmap ==
    /\ exporter \in {"compat", "scripts"}
    /\ pc = "start"
    /\ \E ch \in [0 .. MaxViews - 1 -> ViewChoices], k \in IntrinsicsChoices :
          /\ in_dir = BatchFiles(ch, PoseRest(exporter))
                       \cup (IF k # NoFile THEN {IntrinsicsName} ELSE {})
          /\ in_text = BatchText(ch, PoseRest(exporter))
                        @@ (IF k # NoFile THEN IntrinsicsName :> k ELSE <<>>)
    /\ todo = <<>>
    /\ img_id = 0
    /\ img_dir = {}
    /\ mask_dir = {}
    /\ sparse = <<>>
    /\ db_rows = <<>>
    /\ db_state = "none"
    /\ log = <<>>
    /\ OnlyColmap

NextColmap ==
    \/ CompatSetup
    \/ CompatView
    \/ CompatFinish
    \/ ScriptsSetup
    \/ ScriptsView
    \/ ScriptsFinish

SpecColmap == InitColmap /\ [][NextColmap]_vars

(***************************************************************************)
(* The quaternion extraction on its own: qvec_from_matrix (compat) and     *)
(* qvec_tvec_from_matrix (scripts) applied to a rotation matrix.           *)
(***************************************************************************)
QMax == 2

\* The rotation matrix of the non-zero integer quaternion (a, b, c, d), as
\* integers over den = a*a + b*b + c*c + d*d.  Every rotation with rational
\* entries is one of these; a = 0 gives the rotations by 180 degrees.
RotOfQuat(a, b, c, d) ==
    Mat(a*a + b*b + c*c + d*d,
        << <<a*a + b*b - c*c - d*d, 2*(b*c - a*d), 2*(b*d + a*c), 0>>,
           <<2*(b*c + a*d), a*a - b*b + c*c - d*d, 2*(c*d - a*b), 0>>,
           <<2*(b*d - a*c), 2*(c*d + a*b), a*a - b*b - c*c + d*d, 0>> >>)

InitQvec ==
    /\ exporter \in {"compat", "scripts"}
    /\ pc = "start"
    /\ \E a, b, c, d \in -QMax .. QMax :
          /\ <<a, b, c, d>> # <<0, 0, 0, 0>>
          /\ rot_in = RotOfQuat(a, b, c, d)
    /\ q_out = <<>>
    /\ in_dir = {} /\ in_text = <<>> /\ todo = <<>> /\ log = <<>>
    /\ OnlyQvec

\* q = qvec_from_matrix(R)
CallQvecFromMatrix ==
    /\ exporter = "compat" /\ pc = "start"
    /\ q_out' = qvec_from_matrix(rot_in)
    /\ pc' = "done"
    /\ UNCHANGED <<exporter, in_dir, in_text, todo, log, rot_in>>
    /\ UNCHANGED exceptQvec

\* q, t = qvec_tvec_from_matrix(M)
CallQvecTvecFromMatrix ==
    /\ exporter = "scripts" /\ pc = "start"
    /\ q_out' = qvec_tvec_from_matrix(rot_in).q
    /\ pc' = "done"
    /\ UNCHANGED <<exporter, in_dir, in_text, todo, log, rot_in>>
    /\ UNCHANGED exceptQvec

NextQvec ==
    \/ CallQvecFromMatrix
    \/ CallQvecTvecFromMatrix

SpecQvec == InitQvec /\ [][NextQvec]_vars

(***************************************************************************)
(* The NSVF exporters: compat/to_nsvf_dataset/                             *)
(* to_nsvf_tanks_and_temples_dataset.py ("tt") and                         *)
(* scripts/to_nsvf_dataset/to_nsvf_dataset.py ("nsvf").                    *)
(***************************************************************************)
MaxNsvfViews == 10
\* the views of the batch that may lack a file or hold a malformed one
DefectiveViews == {0, 1}

BboxName == Name(<<>>, "bounding_box.txt")

\* ^(\d+)_masked_.*\.png$  (RE_MASK of both NSVF exporters)
RE_MASKED(f) == Len(f.digits) >= 1 /\ f.rest = MaskedRest
\* ^(\d+)_camera_projection_matrix\.txt$  (RE_PROJ of the Tanks&Temples exporter)
RE_PROJ_TT(f) == Len(f.digits) >= 1 /\ f.rest = ProjTxtRest

\* an output file <prefix><digits><rest>, e.g. 0_12.png
TagName(prefix, ds, rest) == [prefix |-> prefix, digits |-> ds, rest |-> rest]

Frac(num, den) == [num |-> num, den |-> den]

\* --split values given on the command line
Splits == {Frac(7, 10), Frac(1, 2), Frac(1, 4), Frac(1, 1)}

\* parse_args: 0.0 < a.split < 1.0
SplitAccepted(sp) == 0 < sp.num /\ sp.num < sp.den

\* Python's round() of num / den >= 0: to the nearest integer, ties to even.
PyRound(num, den) ==
    LET q == num \div den
        r == num % den
    IN  IF 2 * r < den THEN q
        ELSE IF 2 * r > den THEN q + 1
        ELSE IF q % 2 = 0 THEN q ELSE q + 1

\* int(n_total * split): the product cut off instead of rounded.
n_train_truncated(n_total, sp) == (n_total * sp.num) \div sp.den

\* n_train = int(round(n_total * args.split))
n_train_of(n_total, sp) == PyRound(n_total * sp.num, sp.den)

\* What the batch may hold for a view that can be defective.
NsvfViewChoices ==
    { [img |-> TRUE,  pose |-> PoseIdentity],
      [img |-> TRUE,  pose |-> NoFile],
      [img |-> FALSE, pose |-> PoseIdentity],
      [img |-> TRUE,  pose |-> BadShape] }

NsvfBatchFiles(ch, poseRest) ==
    UNION { (IF ch[i].img THEN {Name(Fmt03d(i), MaskedRest)} ELSE {})
            \cup (IF ch[i].pose # NoFile THEN {Name(Fmt03d(i), poseRest)} ELSE {})
          : i \in DOMAIN ch }

NsvfBatchText(ch, poseRest) ==
    [f \in {Name(Fmt03d(i), poseRest) : i \in {j \in DOMAIN ch : ch[j].pose # NoFile}}
        |-> ch[ParseInt(f.digits)].pose]

\* views[idx] of gather_views: the masked image and the projection file
ViewOf(dir, idx) ==
    [img  |-> CHOOSE f \in dir : RE_MASKED(f) /\ ParseInt(f.digits) = idx,
     proj |-> CHOOSE f \in dir : RE_PROJ_TT(f) /\ ParseInt(f.digits) = idx]

\* gather_views: idx -> {'img', 'proj'} for the views having both
gather_views(dir) ==
    LET imgs == {ParseInt(f.digits) : f \in {g \in dir : RE_MASKED(g)}}
        prjs == {ParseInt(f.digits) : f \in {g \in dir : RE_PROJ_TT(g)}}
    IN  [idx \in imgs \cap prjs |-> ViewOf(dir, idx)]

\* mask_map of scripts/to_nsvf_dataset: idx -> masked image
mask_map(dir) ==
    LET hits == {f \in dir : RE_MASKED(f)}
    IN  [idx \in {ParseInt(f.digits) : f \in hits} |->
            CHOOSE f \in hits : ParseInt(f.digits) = idx]

\* indices = list(views.keys()): the keys in the order in_dir.iterdir() first
\* yielded them, which the file system chooses.  The model takes the listing
\* in ascending or in descending index order.
ListingOrders(S) ==
    LET up == SortedSeq(S)
    IN  {up, [k \in 1 .. Len(up) |-> up[Len(up) + 1 - k]]}

InitNsvf ==
    /\ exporter \in {"tt", "nsvf"}
    /\ pc = "start"
    /\ \E n \in 0 .. MaxNsvfViews, bbox \in BOOLEAN, k \in IntrinsicsChoices :
       \E bad \in [DefectiveViews \cap (0 .. n - 1) -> NsvfViewChoices] :
          LET ch == [i \in 0 .. n - 1 |->
                        IF i \in DOMAIN bad THEN bad[i]
                        ELSE [img |-> TRUE, pose |-> PoseIdentity]]
          IN  /\ in_dir = NsvfBatchFiles(ch, PoseRest(exporter))
                          \cup (IF bbox THEN {BboxName} ELSE {})
                          \cup (IF k # NoFile THEN {IntrinsicsName} ELSE {})
              /\ in_text = NsvfBatchText(ch, PoseRest(exporter))
                           @@ (IF k # NoFile THEN IntrinsicsName :> k ELSE <<>>)
    /\ IF exporter = "tt" THEN split \in Splits ELSE split = <<>>
    /\ todo = <<>> /\ log = <<>>
    /\ train_set = {} /\ test_set = {}
    /\ rgb_dir = {} /\ pose_dir = {} /\ out_top = {}
    /\ OnlyNsvf

\* Tanks&Temples main(), lines 100-134 (with parse_args): everything up to
\* the split.
TTSetup ==
    /\ exporter = "tt" /\ pc = "start"
    /\ IF ~SplitAccepted(split)
       THEN /\ pc' = "exit"
            /\ log' = Append(log, [level |-> "ERR", what |-> "split"])
            /\ UNCHANGED <<out_top, todo, train_set, test_set>>
       ELSE IF BboxName \notin in_dir
       THEN /\ pc' = "exit"
            /\ log' = Append(log, [level |-> "WARN", what |-> "bounding_box.txt"])
            /\ UNCHANGED <<out_top, todo, train_set, test_set>>
       ELSE IF IntrinsicsName \notin in_dir
       THEN /\ pc' = "exit"
            /\ out_top' = {"bbox.txt"}
            /\ log' = log \o <<[level |-> "INFO", what |-> "bbox.txt"],
                               [level |-> "ERR", what |-> "camera_intrinsics.txt"]>>
            /\ UNCHANGED <<todo, train_set, test_set>>
       ELSE IF ~load_intrinsics_ok
       THEN /\ pc' = "raised"
            /\ out_top' = {"bbox.txt"}
            /\ log' = Append(log, [level |-> "INFO", what |-> "bbox.txt"])
            /\ UNCHANGED <<todo, train_set, test_set>>
       ELSE IF DOMAIN gather_views(in_dir) = {}
       THEN /\ pc' = "exit"
            /\ out_top' = {"bbox.txt", "intrinsics.txt"}
            /\ log' = log \o <<[level |-> "INFO", what |-> "bbox.txt"],
                               [level |-> "INFO", what |-> "intrinsics.txt"],
                               [level |-> "ERR", what |-> "views"]>>
            /\ UNCHANGED <<todo, train_set, test_set>>
       ELSE LET indices == DOMAIN gather_views(in_dir)
                n_total == Cardinality(indices)
                n_train == n_train_of(n_total, split)
            IN  /\ pc' = "loop"
                /\ out_top' = {"bbox.txt", "intrinsics.txt"}
                /\ log' = log \o <<[level |-> "INFO", what |-> "bbox.txt"],
                                   [level |-> "INFO", what |-> "intrinsics.txt"]>>
                \* random.sample(indices, n_train): any n_train of them
                /\ \E sample \in SUBSET indices :
                      /\ Cardinality(sample) = n_train
                      /\ train_set' = sample
                      /\ test_set' = indices \ sample
                /\ todo' \in ListingOrders(indices)
    /\ UNCHANGED <<exporter, in_dir, in_text, split, rgb_dir, pose_dir>>
    /\ UNCHANGED exceptNsvf

\* Lines 136-142: one pass of the loop over indices.
TTView ==
    /\ exporter = "tt" /\ pc = "loop" /\ todo # <<>>
    /\ LET idx == Head(todo)
           prefix == IF idx \in train_set THEN "0_" ELSE "1_"
           proj == ViewOf(in_dir, idx).proj
       IN  /\ rgb_dir' = rgb_dir \cup {TagName(prefix, FmtInt(idx), ".png")}
           /\ IF ~load_pose_ok(proj)
              THEN /\ pc' = "raised"
                   /\ UNCHANGED <<pose_dir, todo>>
              ELSE /\ pose_dir' = pose_dir \cup {TagName(prefix, FmtInt(idx), ".txt")}
                   /\ todo' = Tail(todo)
                   /\ pc' = pc
    /\ UNCHANGED <<exporter, in_dir, in_text, log, split, train_set, test_set,
                   out_top>>
    /\ UNCHANGED exceptNsvf

\* Lines 144-147: the report.
TTFinish ==
    /\ exporter = "tt" /\ pc = "loop" /\ todo = <<>>
    /\ log' = Append(log, [level |-> "OK", train |-> Cardinality(train_set),
                           test |-> Cardinality(test_set)])
    /\ pc' = "done"
    /\ UNCHANGED <<exporter, in_dir, in_text, todo, split, train_set, test_set,
                   rgb_dir, pose_dir, out_top>>
    /\ UNCHANGED exceptNsvf

\* scripts/to_nsvf_dataset main(), lines 80-110: intrinsics and bounding box
\* are copied if present, then the masked images are gathered.
NsvfSetup ==
    /\ exporter = "nsvf" /\ pc = "start"
    /\ out_top' = (IF IntrinsicsName \in in_dir THEN {"intrinsics.txt"} ELSE {})
                  \cup (IF BboxName \in in_dir THEN {"bbox.txt"} ELSE {})
    /\ LET msgs == <<IF IntrinsicsName \in in_dir
                     THEN [level |-> "INFO", what |-> "camera_intrinsics.txt"]
                     ELSE [level |-> "WARN", what |-> "camera_intrinsics.txt"],
                     IF BboxName \in in_dir
                     THEN [level |-> "INFO", what |-> "bounding_box.txt"]
                     ELSE [level |-> "WARN", what |-> "bounding_box.txt"]>>
       IN  IF DOMAIN mask_map(in_dir) = {}
           THEN /\ pc' = "exit"
                /\ log' = log \o msgs \o <<[level |-> "ERR", what |-> "masked"]>>
                /\ UNCHANGED todo
           ELSE /\ pc' = "loop"
                /\ log' = log \o msgs
                /\ todo' = SortedSeq(DOMAIN mask_map(in_dir))
    /\ UNCHANGED <<exporter, in_dir, in_text, split, train_set, test_set,
                   rgb_dir, pose_dir>>
    /\ UNCHANGED exceptNsvf

\* Lines 112-123: one pass of the loop over sorted(mask_map.keys()).
NsvfView ==
    /\ exporter = "nsvf" /\ pc = "loop" /\ todo # <<>>
    /\ LET idx == Head(todo)
           proj_json == Name(Fmt03d(idx), ProjJsonRest)
       IN  /\ rgb_dir' = rgb_dir \cup {TagName("", FmtInt(idx), ".png")}
           /\ IF proj_json \notin in_dir
              THEN /\ log' = Append(log, [level |-> "WARN", what |-> "projection",
                                          idx |-> idx])
                   /\ todo' = Tail(todo)
                   /\ UNCHANGED <<pc, pose_dir>>
              ELSE IF ~load_pose_ok(proj_json)
              THEN /\ pc' = "raised"
                   /\ UNCHANGED <<log, todo, pose_dir>>
              ELSE /\ pose_dir' = pose_dir \cup {TagName("", FmtInt(idx), ".txt")}
                   /\ todo' = Tail(todo)
                   /\ UNCHANGED <<pc, log>>
    /\ UNCHANGED <<exporter, in_dir, in_text, split, train_set, test_set, out_top>>
    /\ UNCHANGED exceptNsvf

\* Line 125.
NsvfFinish ==
    /\ exporter = "nsvf" /\ pc = "loop" /\ todo = <<>>
    /\ log' = Append(log, Ok)
    /\ pc' = "done"
    /\ UNCHANGED <<exporter, in_dir, in_text, todo, split, train_set, test_set,
                   rgb_dir, pose_dir, out_top>>
    /\ UNCHANGED exceptNsvf

NextNsvf ==
    \/ TTSetup
    \/ TTView
    \/ TTFinish
    \/ NsvfSetup
    \/ NsvfView
    \/ NsvfFinish

SpecNsvf == InitNsvf /\ [][NextNsvf]_vars

(***************************************************************************)
(* scripts/to_idr_dataset/to_idr_dataset.py, main().                       *)
(***************************************************************************)
ScaleName == Name(<<>>, "normalization_matrix.json")

Mat4(den, rows) == [shape |-> "4x4", den |-> den, m |-> rows]

\* np.eye(4)
Eye4 == Mat4(1, << <<1, 0, 0, 0>>, <<0, 1, 0, 0>>, <<0, 0, 1, 0>>, <<0, 0, 0, 1>> >>)

\* What normalization_matrix.json may hold: no such file, diag(s,s,s,1) for
\* s = 1/2 or for s = 2/3.
ScaleChoices ==
    { NoFile,
      Mat4(2, << <<1, 0, 0, 0>>, <<0, 1, 0, 0>>, <<0, 0, 1, 0>>, <<0, 0, 0, 2>> >>),
      Mat4(3, << <<2, 0, 0, 0>>, <<0, 2, 0, 0>>, <<0, 0, 2, 0>>, <<0, 0, 0, 3>> >>) }

\* kind of a file under the three patterns of collect_files, "" when none
\* matches: RE_RGB ^(\d+)_render\.png$, RE_MASK ^(\d+)_mask_.*\.png$ and
\* RE_PROJ ^(\d+)_camera_projection_matrix\.json$
IdrKindOf(f) ==
    IF RE_RENDER(f) THEN "rgb"
    ELSE IF RE_MASK(f) THEN "mask"
    ELSE IF Len(f.digits) >= 1 /\ f.rest = ProjJsonRest THEN "proj"
    ELSE ""

\* collect_files: idx -> (kind -> file)
collect_files(dir) ==
    LET hits == {f \in dir : IdrKindOf(f) # ""}
        idxs == {ParseInt(f.digits) : f \in hits}
    IN  [idx \in idxs |->
            LET mine == {f \in hits : ParseInt(f.digits) = idx}
            IN  [k \in {IdrKindOf(f) : f \in mine} |->
                    CHOOSE f \in mine : IdrKindOf(f) = k]]

\* load_projection: the 3x4 matrix lifted to 4x4 with last row (0, 0, 0, 1)
load_projection(M) ==
    Mat4(M.den, << M.m[1], M.m[2], M.m[3], <<0, 0, 0, M.den>> >>)

\* A view is exported as soon as it has an image and a projection.
missing_keys_no_mask(entry) == {"rgb", "proj"} \ DOMAIN entry

\* {"rgb","mask","proj"} - entry.keys()
missing_keys(entry) == {"rgb", "mask", "proj"} \ DOMAIN entry

\* The identity whatever the input holds.
scale_template_identity(dir, text) == Eye4

\* lines 90-95: the matrix of the file matching RE_SCALE
\* (^normalization_matrix\.json$), np.eye(4) without such a file
scale_template_of(dir, text) ==
    IF \E p \in dir : p = ScaleName
    THEN text[CHOOSE p \in dir : p = ScaleName]
    ELSE Eye4

\* f"world_mat_{idx}", f"scale_mat_{idx}"
IdrKey(kind, idx) == [key |-> kind, digits |-> FmtInt(idx)]

InitIdr ==
    /\ exporter = "idr"
    /\ pc = "start"
    /\ \E ch \in [0 .. MaxViews - 1 ->
                      [rgb : BOOLEAN, mask : BOOLEAN,
                       pose : {NoFile, PoseQuarterZ, BadShape}]],
          sc \in ScaleChoices :
          /\ in_dir = BatchFiles(ch, ProjJsonRest)
                       \cup (IF sc # NoFile THEN {ScaleName} ELSE {})
          /\ in_text = BatchText(ch, ProjJsonRest)
                        @@ (IF sc # NoFile THEN ScaleName :> sc ELSE <<>>)
    /\ todo = <<>>
    /\ log = <<>>
    /\ idr_image_dir = {}
    /\ idr_mask_dir = {}
    /\ world_mats = <<>>
    /\ scale_mats = <<>>
    /\ scale_template = <<>>
    /\ cameras_npz = [saved |-> FALSE]
    /\ OnlyIdr

\* Lines 77-95: the scan, the exit on an empty table, the output directories
\* and the scale template.
IdrSetup ==
    /\ exporter = "idr" /\ pc = "start"
    /\ IF DOMAIN collect_files(in_dir) = {}
       THEN /\ pc' = "exit"
            /\ UNCHANGED <<todo, scale_template>>
       ELSE /\ pc' = "loop"
            /\ scale_template' = scale_template_of(in_dir, in_text)
            /\ todo' = SortedSeq(DOMAIN collect_files(in_dir))
    /\ UNCHANGED <<exporter, in_dir, in_text, log, idr_image_dir, idr_mask_dir,
                   world_mats, scale_mats, cameras_npz>>
    /\ UNCHANGED exceptIdr

\* Lines 97-112: one pass of the loop over sorted(file_map.keys()).
IdrView ==
    /\ exporter = "idr" /\ pc = "loop" /\ todo # <<>>
    /\ LET idx   == Head(todo)
           entry == collect_files(in_dir)[idx]
       IN  IF missing_keys(entry) # {}
           THEN /\ log' = Append(log, Warn(idx))
                /\ todo' = Tail(todo)
                /\ UNCHANGED <<pc, idr_image_dir, idr_mask_dir, world_mats,
                               scale_mats>>
           ELSE /\ idr_image_dir' = idr_image_dir \cup {Name(Fmt03d(idx), ".png")}
                /\ idr_mask_dir' = idr_mask_dir \cup {Name(Fmt03d(idx), ".png")}
                /\ IF in_text[entry["proj"]].shape # "3x4"
                   THEN /\ pc' = "raised"
                        /\ UNCHANGED <<todo, world_mats, scale_mats>>
                   ELSE /\ world_mats' =
                              (IdrKey("world_mat", idx)
                                   :> load_projection(in_text[entry["proj"]]))
                              @@ world_mats
                        /\ scale_mats' =
                              (IdrKey("scale_mat", idx) :> scale_template)
                              @@ scale_mats
                        /\ todo' = Tail(todo)
                        /\ pc' = pc
                /\ UNCHANGED log
    /\ UNCHANGED <<exporter, in_dir, in_text, scale_template, cameras_npz>>
    /\ UNCHANGED exceptIdr

\* Lines 115-116: np.savez_compressed(..., **world_mats, **scale_mats).
IdrFinish ==
    /\ exporter = "idr" /\ pc = "loop" /\ todo = <<>>
    /\ cameras_npz' = [saved |-> TRUE, arrays |-> world_mats @@ scale_mats]
    /\ log' = Append(log, Ok)
    /\ pc' = "done"
    /\ UNCHANGED <<exporter, in_dir, in_text, todo, idr_image_dir, idr_mask_dir,
                   world_mats, scale_mats, scale_template>>
    /\ UNCHANGED exceptIdr

NextIdr ==
    \/ IdrSetup
    \/ IdrView
    \/ IdrFinish

SpecIdr == InitIdr /\ [][NextIdr]_vars

(***************************************************************************)
(* on_scene_created of the plugins BoundingBox (plugins/bounding_box.py),  *)
(* NormalizationMatrix (plugins/normalization_matrix.py) and MaskedRGB     *)
(* (plugins/masked.py), called on a scene.                                 *)
(*                                                                         *)
(* Text is a sequence of characters.  A regular expression is a text of    *)
(* literal characters and ".", which matches any character.                *)
(***************************************************************************)
MaxObjects == 2

\* re.search(pat, text) finds a match: at some position every character of
\* pat is "." or the character of text
ReSearch(pat, text) ==
    \E pos \in 1 .. Len(text) + 1 :
        /\ pos + Len(pat) - 1 <= Len(text)
        /\ \A k \in 1 .. Len(pat) : pat[k] = "." \/ pat[k] = text[pos + k - 1]

\* Objects a scene may hold: name, type and the two opposite world-space
\* corners of the bound box (matrix_world @ corner over the 8 corners gives
\* the 8 combinations of their coordinates).
SceneObjectChoices ==
    { [name |-> <<"P", "l", "a", "n", "e">>, type |-> "MESH",
       lo |-> <<-2, -2, 0>>, hi |-> <<2, 2, 0>>],
      [name |-> <<"P", "l", "a", "n", "e", ".", "0", "0", "1">>, type |-> "MESH",
       lo |-> <<-3, -3, 0>>, hi |-> <<3, 3, 0>>],
      [name |-> <<"C", "u", "b", "e">>, type |-> "MESH",
       lo |-> <<-1, -1, -1>>, hi |-> <<1, 1, 1>>],
      [name |-> <<"B", "o", "x">>, type |-> "MESH",
       lo |-> <<0, 0, 0>>, hi |-> <<2, 2, 2>>],
      [name |-> <<"V", "e", "r", "t">>, type |-> "MESH",
       lo |-> <<0, 0, 0>>, hi |-> <<0, 0, 0>>],
      [name |-> <<"L", "i", "g", "h", "t">>, type |-> "LIGHT",
       lo |-> <<3, 3, 4>>, hi |-> <<5, 5, 6>>] }

\* scene.objects: objects with distinct names, in any order
Scenes ==
    UNION { {s \in [1 .. n -> SceneObjectChoices] :
                \A a, b \in 1 .. n : a # b => s[a].name # s[b].name}
          : n \in 0 .. MaxObjects }

\* The plugin's table of config.toml: with or without exclude_pattern, with
\* or without voxel_size.
PluginCfgChoices ==
    { [k \in {} |-> 0],
      [exclude_pattern |-> <<"P", "l", "a", "n", "e">>],
      [exclude_pattern |-> <<"P", "l", "a", "n", "e", ".", "0", "0", "1">>],
      [exclude_pattern |-> <<"P", "l", "a", "n", "e", "X", "0", "0", "1">>],
      [exclude_pattern |-> <<"C", "u", "b", "e">>, voxel_size |-> Frac(1, 4)] }

\* dict.get(key, default)
CfgGet(cfg, key, default) == IF key \in DOMAIN cfg THEN cfg[key] ELSE default

\* re.search(obj.name, exclude): the object's name is the pattern, the
\* configured exclude_pattern the text it is searched in.
excluded(obj, exclude) == ReSearch(obj.name, exclude)

\* the objects the loop does not skip, in scene order
KeptObjects(objs, exclude) == SelectSeq(objs, LAMBDA o : ~excluded(o, exclude))

\* one logging.info per skipped object, in scene order
SkipLines(objs, exclude) ==
    LET sk == SelectSeq(objs, LAMBDA o : excluded(o, exclude))
    IN  [k \in 1 .. Len(sk) |-> Info("skip", sk[k].name)]

\* float("inf"): above every coordinate
Inf == 1000

\* the 8 world-space corners of the kept objects
Corners(kept) ==
    UNION { {<<x, y, z>> : x \in {kept[k].lo[1], kept[k].hi[1]},
                           y \in {kept[k].lo[2], kept[k].hi[2]},
                           z \in {kept[k].lo[3], kept[k].hi[3]}}
          : k \in DOMAIN kept }

\* min(...) folded over the corners, starting from inf
CoordMin(cs, axis) ==
    LET vs == {c[axis] : c \in cs} \cup {Inf}
    IN  CHOOSE v \in vs : \A w \in vs : v <= w

\* max(...) folded over the corners, starting from -inf
CoordMax(cs, axis) ==
    LET vs == {c[axis] : c \in cs} \cup {-Inf}
    IN  CHOOSE v \in vs : \A w \in vs : v >= w

\* The flag set whatever the loop kept.
found_always(kept) == TRUE

\* found: set by the first object the loop does not skip
found_of(kept) == kept # <<>>

\* bounding_box.txt: x_min y_min z_min x_max y_max z_max voxel_size
bbox_line(cs, cfg) ==
    LET dims == {CoordMax(cs, a) - CoordMin(cs, a) : a \in 1 .. 3}
        max_dim == CHOOSE d \in dims : \A e \in dims : d >= e
        voxel_size == CfgGet(cfg, "voxel_size", Frac(0, 1))
    IN  [lo |-> <<CoordMin(cs, 1), CoordMin(cs, 2), CoordMin(cs, 3)>>,
         hi |-> <<CoordMax(cs, 1), CoordMax(cs, 2), CoordMax(cs, 3)>>,
         voxel_size |-> IF voxel_size.num = 0 THEN Frac(max_dim, 128)
                        ELSE voxel_size]

\* R is 1 as soon as one half-extent is zero.
R_sq_any_zero(dx, dy, dz) ==
    IF dx # 0 /\ dy # 0 /\ dz # 0 THEN Frac(dx*dx + dy*dy + dz*dz, 4)
    ELSE Frac(1, 1)

\* R * R for R = math.sqrt(hx*hx + hy*hy + hz*hz) if (hx or hy or hz) else 1.0
\* with hx = dx / 2.0, hy = dy / 2.0, hz = dz / 2.0
R_sq(dx, dy, dz) ==
    IF dx # 0 \/ dy # 0 \/ dz # 0 THEN Frac(dx*dx + dy*dy + dz*dz, 4)
    ELSE Frac(1, 1)

\* scale_mat = diag(s, s, s, 1) with s = 1.0 / R, kept as s * s
scale_mat(cs) ==
    LET rr == R_sq(CoordMax(cs, 1) - CoordMin(cs, 1),
                   CoordMax(cs, 2) - CoordMin(cs, 2),
                   CoordMax(cs, 3) - CoordMin(cs, 3))
    IN  [shape |-> "diag(s,s,s,1)", s_sq |-> Frac(rr.den, rr.num)]

InitScene ==
    /\ exporter \in {"BoundingBox", "NormalizationMatrix", "MaskedRGB"}
    /\ pc = "start"
    /\ scene_objects \in Scenes
    /\ plugin_cfg \in PluginCfgChoices
    /\ out_files = <<>>
    /\ pass_index = [k \in DOMAIN scene_objects |-> 0]
    /\ in_dir = {} /\ in_text = <<>> /\ todo = <<>> /\ log = <<>>
    /\ OnlyScene

\* BoundingBox.on_scene_created
BoundingBoxOnSceneCreated ==
    /\ exporter = "BoundingBox" /\ pc = "start"
    /\ LET exclude == CfgGet(plugin_cfg, "exclude_pattern", <<>>)
           kept    == KeptObjects(scene_objects, exclude)
       IN  IF ~found_of(kept)
           THEN /\ log' = log \o SkipLines(scene_objects, exclude)
                              \o <<[level |-> "WARNING", who |-> "BBox"]>>
                /\ UNCHANGED out_files
           ELSE /\ log' = log \o SkipLines(scene_objects, exclude)
                /\ out_files' = (BboxName :> bbox_line(Corners(kept), plugin_cfg))
                                  @@ out_files
    /\ pc' = "returned"
    /\ UNCHANGED <<exporter, in_dir, in_text, todo, scene_objects, plugin_cfg,
                   pass_index>>
    /\ UNCHANGED exceptScene

\* NormalizationMatrix.on_scene_created
NormalizationMatrixOnSceneCreated ==
    /\ exporter = "NormalizationMatrix" /\ pc = "start"
    /\ LET exclude == CfgGet(plugin_cfg, "exclude_pattern", <<>>)
           kept    == KeptObjects(scene_objects, exclude)
       IN  IF ~found_of(kept)
           THEN /\ log' = log \o SkipLines(scene_objects, exclude)
                              \o <<[level |-> "WARNING", who |-> "NormalizationMatrix"]>>
                /\ UNCHANGED out_files
           ELSE /\ log' = log \o SkipLines(scene_objects, exclude)
                /\ out_files' = (ScaleName :> scale_mat(Corners(kept))) @@ out_files
    /\ pc' = "returned"
    /\ UNCHANGED <<exporter, in_dir, in_text, todo, scene_objects, plugin_cfg,
                   pass_index>>
    /\ UNCHANGED exceptScene

\* MaskedRGB.on_scene_created: the compositor nodes, then the pass index of
\* every mesh the loop does not skip
MaskedRGBOnSceneCreated ==
    /\ exporter = "MaskedRGB" /\ pc = "start"
    /\ \E pseudorandom_number \in {1, 7} :   \* rl.as_pointer() % 0x7fffffff
          LET exclude == CfgGet(plugin_cfg, "exclude_pattern", <<>>)
          IN  pass_index' =
                 [k \in DOMAIN scene_objects |->
                     IF ~excluded(scene_objects[k], exclude)
                        /\ scene_objects[k].type = "MESH"
                     THEN pseudorandom_number ELSE pass_index[k]]
    /\ pc' = "returned"
    /\ UNCHANGED <<exporter, in_dir, in_text, todo, log, scene_objects,
                   plugin_cfg, out_files>>
    /\ UNCHANGED exceptScene

NextScene ==
    \/ BoundingBoxOnSceneCreated
    \/ NormalizationMatrixOnSceneCreated
    \/ MaskedRGBOnSceneCreated

SpecScene == InitScene /\ [][NextScene]_vars

(***************************************************************************)
(* generate-batch.py, main(): the plugin hooks around the render loop.     *)
(***************************************************************************)
MaxRenders == 3
MaxPlugins == 2

\* A plugin module of the plugins directory: its name and what the __init__
\* of its class takes besides self.  "cfg": one argument; "cfg, plugin_cfg":
\* two (BoundingBox, Depth, ...; IPlugin.__init__ itself, which
\* CameraExtrinsics inherits); "cfg -> super().__init__(cfg)": one, handed on
\* to IPlugin.__init__ (Mask).
PluginModuleChoices ==
    { [name |-> "bounding_box", init |-> "cfg, plugin_cfg"],
      [name |-> "camera_extrinsics", init |-> "cfg, plugin_cfg"],
      [name |-> "camera_intrinsics", init |-> "cfg, plugin_cfg"],
      [name |-> "camera_projection_matrix", init |-> "cfg, plugin_cfg"],
      [name |-> "depth", init |-> "cfg, plugin_cfg"],
      [name |-> "mask", init |-> "cfg -> super().__init__(cfg)"],
      [name |-> "masked", init |-> "cfg, plugin_cfg"],
      [name |-> "normal", init |-> "cfg, plugin_cfg"],
      [name |-> "normalization_matrix", init |-> "cfg, plugin_cfg"],
      [name |-> "user_a", init |-> "cfg"],
      [name |-> "user_b", init |-> "cfg"],
      [name |-> "user_c", init |-> "cfg"] }

\* pkgutil.iter_modules([dirname]): modules with distinct names
PluginDirs ==
    UNION { {s \in [1 .. n -> PluginModuleChoices] :
                \A a, b \in 1 .. n : a # b => s[a].name # s[b].name}
          : n \in 0 .. MaxPlugins }

\* discover_plugins: the instances of the modules whose class could be
\* constructed, in module order; new_plugin_class(cfg) returns an instance
\* when __init__ takes the one argument and does not raise TypeError, the
\* other modules are logged and skipped
discover_plugins(dir) ==
    LET ok == SelectSeq(dir, LAMBDA mod : mod.init = "cfg")
    IN  [k \in 1 .. Len(ok) |-> ok[k].name]

\* The views from the last to the first.
range_descending(n) == [k \in 1 .. n |-> n - k]

\* range(N)
range(n) == [k \in 1 .. n |-> k - 1]

HookCall(hook, plugin, index) == [hook |-> hook, plugin |-> plugin, index |-> index]
RenderCall(index) == [hook |-> "render_image", index |-> index]

InitBatch ==
    /\ exporter = "generate-batch"
    /\ pc = "start"
    /\ plugin_dir \in PluginDirs
    /\ N \in 0 .. MaxRenders
    /\ plugins = <<>>
    /\ view_i = 0
    /\ hook_k = 0
    /\ calls = <<>>
    /\ in_dir = {} /\ in_text = <<>> /\ todo = <<>> /\ log = <<>>
    /\ OnlyBatch

\* Lines 383-407: configuration, discover_plugins, scene setup.
BatchSetup ==
    /\ exporter = "generate-batch" /\ pc = "start"
    /\ plugins' = discover_plugins(plugin_dir)
    /\ hook_k' = 0
    /\ pc' = "on_scene_created"
    /\ UNCHANGED <<exporter, in_dir, in_text, todo, log, plugin_dir, N, view_i,
                   calls>>
    /\ UNCHANGED exceptBatch

\* Lines 410-411: one pass of for plugin in plugins: plugin.on_scene_created.
SceneCreatedHook ==
    /\ exporter = "generate-batch" /\ pc = "on_scene_created"
    /\ hook_k < Len(plugins)
    /\ calls' = Append(calls, HookCall("on_scene_created", plugins[hook_k + 1], -1))
    /\ hook_k' = hook_k + 1
    /\ UNCHANGED <<exporter, pc, in_dir, in_text, todo, log, plugin_dir, plugins,
                   N, view_i>>
    /\ UNCHANGED exceptBatch

\* Lines 413-415: the hooks are through; for i in range(N) starts.
LoopStart ==
    /\ exporter = "generate-batch" /\ pc = "on_scene_created"
    /\ hook_k = Len(plugins)
    /\ todo' = range(N)
    /\ pc' = "for_i"
    /\ UNCHANGED <<exporter, in_dir, in_text, log, plugin_dir, plugins, N,
                   view_i, hook_k, calls>>
    /\ UNCHANGED exceptBatch

\* Lines 415-421: the next i, its camera; after the last one lines 434-443,
\* where diff.seconds / N raises ZeroDivisionError for N = 0.
NextView ==
    /\ exporter = "generate-batch" /\ pc = "for_i"
    /\ IF todo # <<>>
       THEN /\ view_i' = Head(todo)
            /\ todo' = Tail(todo)
            /\ pc' = "on_camera_created"
       ELSE /\ pc' = IF N = 0 THEN "raised" ELSE "on_rendering_completed"
            /\ UNCHANGED <<view_i, todo>>
    /\ hook_k' = 0
    /\ UNCHANGED <<exporter, in_dir, in_text, log, plugin_dir, plugins, N, calls>>
    /\ UNCHANGED exceptBatch

\* Lines 423-424: one pass of for plugin in plugins: plugin.on_camera_created.
CameraCreatedHook ==
    /\ exporter = "generate-batch" /\ pc = "on_camera_created"
    /\ hook_k < Len(plugins)
    /\ calls' = Append(calls, HookCall("on_camera_created", plugins[hook_k + 1], view_i))
    /\ hook_k' = hook_k + 1
    /\ UNCHANGED <<exporter, pc, in_dir, in_text, todo, log, plugin_dir, plugins,
                   N, view_i>>
    /\ UNCHANGED exceptBatch

\* Lines 426-429: render_image(scene, f"{i:03d}_render.png").
Render ==
    /\ exporter = "generate-batch" /\ pc = "on_camera_created"
    /\ hook_k = Len(plugins)
    /\ calls' = Append(calls, RenderCall(view_i))
    /\ hook_k' = 0
    /\ pc' = "on_another_render_completed"
    /\ UNCHANGED <<exporter, in_dir, in_text, todo, log, plugin_dir, plugins, N,
                   view_i>>
    /\ UNCHANGED exceptBatch

\* Lines 431-432: one pass of for plugin in plugins:
\* plugin.on_another_render_completed.
RenderCompletedHook ==
    /\ exporter = "generate-batch" /\ pc = "on_another_render_completed"
    /\ hook_k < Len(plugins)
    /\ calls' = Append(calls, HookCall("on_another_render_completed",
                                       plugins[hook_k + 1], view_i))
    /\ hook_k' = hook_k + 1
    /\ UNCHANGED <<exporter, pc, in_dir, in_text, todo, log, plugin_dir, plugins,
                   N, view_i>>
    /\ UNCHANGED exceptBatch

\* Lines 434-436: the camera of view i is removed; back to the loop head.
ViewDone ==
    /\ exporter = "generate-batch" /\ pc = "on_another_render_completed"
    /\ hook_k = Len(plugins)
    /\ pc' = "for_i"
    /\ UNCHANGED <<exporter, in_dir, in_text, todo, log, plugin_dir, plugins, N,
                   view_i, hook_k, calls>>
    /\ UNCHANGED exceptBatch

\* Lines 445-446: one pass of for plugin in plugins:
\* plugin.on_rendering_completed.
RenderingCompletedHook ==
    /\ exporter = "generate-batch" /\ pc = "on_rendering_completed"
    /\ hook_k < Len(plugins)
    /\ calls' = Append(calls, HookCall("on_rendering_completed",
                                       plugins[hook_k + 1], -1))
    /\ hook_k' = hook_k + 1
    /\ UNCHANGED <<exporter, pc, in_dir, in_text, todo, log, plugin_dir, plugins,
                   N, view_i>>
    /\ UNCHANGED exceptBatch

\* Lines 448-449: the configuration file is copied; main returns.
BatchFinish ==
    /\ exporter = "generate-batch" /\ pc = "on_rendering_completed"
    /\ hook_k = Len(plugins)
    /\ pc' = "done"
    /\ UNCHANGED <<exporter, in_dir, in_text, todo, log, plugin_dir, plugins, N,
                   view_i, hook_k, calls>>
    /\ UNCHANGED exceptBatch

NextBatch ==
    \/ BatchSetup
    \/ SceneCreatedHook
    \/ LoopStart
    \/ NextView
    \/ CameraCreatedHook
    \/ Render
    \/ RenderCompletedHook
    \/ ViewDone
    \/ RenderingCompletedHook
    \/ BatchFinish

SpecBatch == InitBatch /\ [][NextBatch]_vars

(***************************************************************************)
(* The matrix helpers of plugins/camera_intrinsics.py,                     *)
(* plugins/camera_extrinsics.py and plugins/camera_projection_matrix.py,   *)
(* applied to a camera.  Floats are kept as reduced fractions.             *)
(***************************************************************************)
\* the fraction num / den (den # 0) in lowest terms with a positive denominator
Reduced(num, den) ==
    LET n == IF num < 0 THEN -num ELSE num
        d == IF den < 0 THEN -den ELSE den
        g == CHOOSE k \in 1 .. d : /\ n % k = 0 /\ d % k = 0
                                   /\ \A j \in k + 1 .. d : n % j # 0 \/ d % j # 0
        s == IF den < 0 THEN -1 ELSE 1
    IN  Frac((s * num) \div g, (s * den) \div g)

FInt(n) == Frac(n, 1)
FMul(a, b) == Reduced(a.num * b.num, a.den * b.den)
FDiv(a, b) == Reduced(a.num * b.den, a.den * b.num)
FAdd(a, b) == Reduced(a.num * b.den + b.num * a.den, a.den * b.den)
FSub(a, b) == Reduced(a.num * b.den - b.num * a.den, a.den * b.den)
FGe(a, b)  == a.num * b.den >= b.num * a.den

\* BKE_camera_sensor_size
get_sensor_size(sensor_fit, sensor_x, sensor_y) ==
    IF sensor_fit = "VERTICAL" THEN sensor_y ELSE sensor_x

\* BKE_camera_sensor_fit
get_sensor_fit(sensor_fit, size_x, size_y) ==
    IF sensor_fit = "AUTO"
    THEN IF FGe(size_x, size_y) THEN "HORIZONTAL" ELSE "VERTICAL"
    ELSE sensor_fit

\* The resolution taken as it is, whatever the percentage.
resolution_unscaled(scale, resolution) == FInt(resolution)

\* scale * scene.render.resolution_x
resolution_in_px(scale, resolution) == FMul(scale, FInt(resolution))

\* get_calibration_matrix_K_from_blender for a perspective camera; camd holds
\* the camera data and the render settings of bpy.context.scene
get_calibration_matrix_K_from_blender(camd) ==
    LET f_in_mm == camd.lens
        scale == FDiv(FInt(camd.resolution_percentage), FInt(100))
        resolution_x_in_px == resolution_in_px(scale, camd.resolution_x)
        resolution_y_in_px == resolution_in_px(scale, camd.resolution_y)
        sensor_size_in_mm ==
            get_sensor_size(camd.sensor_fit, camd.sensor_width, camd.sensor_height)
        sensor_fit ==
            get_sensor_fit(camd.sensor_fit,
                           FMul(camd.pixel_aspect_x, resolution_x_in_px),
                           FMul(camd.pixel_aspect_y, resolution_y_in_px))
        pixel_aspect_ratio == FDiv(camd.pixel_aspect_y, camd.pixel_aspect_x)
        view_fac_in_px ==
            IF sensor_fit = "HORIZONTAL" THEN resolution_x_in_px
            ELSE FMul(pixel_aspect_ratio, resolution_y_in_px)
        pixel_size_mm_per_px ==
            FDiv(FDiv(sensor_size_in_mm, f_in_mm), view_fac_in_px)
        s_u == FDiv(FInt(1), pixel_size_mm_per_px)
        s_v == FDiv(FDiv(FInt(1), pixel_size_mm_per_px), pixel_aspect_ratio)
        u_0 == FSub(FDiv(resolution_x_in_px, FInt(2)),
                    FMul(camd.shift_x, view_fac_in_px))
        v_0 == FAdd(FDiv(resolution_y_in_px, FInt(2)),
                    FDiv(FMul(camd.shift_y, view_fac_in_px), pixel_aspect_ratio))
    IN  [shape |-> "3x3", fx |-> s_u, skew |-> FInt(0), fy |-> s_v,
         cx |-> u_0, cy |-> v_0]

\* R_bcam2cv
R_bcam2cv == << <<1, 0, 0>>, <<0, -1, 0>>, <<0, 0, -1>> >>

\* The rotation as it is.
not_transposed(R) == R

\* Matrix.transposed()
transposed(R) == [r \in 1 .. 3 |-> [c \in 1 .. 3 |-> R[c][r]]]

\* A @ B for 3x3 matrices
MatMul3(A, B) ==
    [r \in 1 .. 3 |-> [c \in 1 .. 3 |->
        A[r][1] * B[1][c] + A[r][2] * B[2][c] + A[r][3] * B[3][c]]]

\* A @ v for a 3x3 matrix and a vector
MatVec3(A, v) ==
    [r \in 1 .. 3 |-> A[r][1] * v[1] + A[r][2] * v[2] + A[r][3] * v[3]]

\* get_3x4_RT_matrix_from_blender.  matrix_world is the 3x4 matrix m / den
\* of a rotation and a location; decompose() gives the location (column 4)
\* and the rotation.  The rotation part of the result is over den, its
\* translation over den * den: the result is given over den * den.
get_3x4_RT_matrix_from_blender(matrix_world) ==
    LET den == matrix_world.den
        location == [r \in 1 .. 3 |-> matrix_world.m[r][4]]
        rotation == [r \in 1 .. 3 |-> [c \in 1 .. 3 |-> matrix_world.m[r][c]]]
        R_world2bcam == transposed(rotation)
        T_world2bcam == [r \in 1 .. 3 |-> -1 * MatVec3(R_world2bcam, location)[r]]
        R_world2cv == MatMul3(R_bcam2cv, R_world2bcam)
        T_world2cv == MatVec3(R_bcam2cv, T_world2bcam)
    IN  Mat(den * den,
            [r \in 1 .. 3 |->
                <<den * R_world2cv[r][1], den * R_world2cv[r][2],
                  den * R_world2cv[r][3], T_world2cv[r]>>])

\* Camera data and render settings the helpers may be handed.
CamDataChoices ==
    [type : {"PERSP", "ORTHO"},
     lens : {FInt(35), FInt(50)},
     sensor_fit : {"AUTO", "HORIZONTAL", "VERTICAL"},
     sensor_width : {FInt(36)},
     sensor_height : {FInt(24)},
     shift_x : {FInt(0), Frac(1, 4)},
     shift_y : {FInt(0), Frac(-1, 8)},
     resolution_x : {24, 32},
     resolution_y : {24, 32},
     resolution_percentage : {50, 100},
     pixel_aspect_x : {FInt(1), FInt(2)},
     pixel_aspect_y : {FInt(1), FInt(2)}]

\* Blender's defaults: a 50 mm lens on a 36 mm sensor, 1920 x 1080 at 100 %
DefaultCamData ==
    [type |-> "PERSP", lens |-> FInt(50), sensor_fit |-> "AUTO",
     sensor_width |-> FInt(36), sensor_height |-> FInt(24),
     shift_x |-> FInt(0), shift_y |-> FInt(0),
     resolution_x |-> 1920, resolution_y |-> 1080,
     resolution_percentage |-> 100,
     pixel_aspect_x |-> FInt(1), pixel_aspect_y |-> FInt(1)]

\* matrix_world of a camera with the rotation of the quaternion (a, b, c, d)
\* at location loc
MatrixWorld(a, b, c, d, loc) ==
    LET R == RotOfQuat(a, b, c, d)
    IN  Mat(R.den, [r \in 1 .. 3 |->
                       <<R.m[r][1], R.m[r][2], R.m[r][3], R.den * loc[r]>>])

InitCam ==
    /\ pc = "start"
    /\ \/ /\ exporter \in {"camera_intrinsics.K", "camera_projection_matrix.K"}
          /\ \E d \in CamDataChoices :
                cam_in = [data |-> d, matrix_world |-> MatrixWorld(1, 0, 0, 0, <<0, 0, 0>>)]
       \/ /\ exporter \in {"camera_extrinsics.RT", "camera_projection_matrix.RT"}
          /\ \E a, b, c, d \in -QMax .. QMax,
                loc \in {<<0, 0, 0>>, <<1, 2, 3>>, <<0, -4, 2>>} :
                /\ <<a, b, c, d>> # <<0, 0, 0, 0>>
                /\ cam_in = [data |-> DefaultCamData,
                             matrix_world |-> MatrixWorld(a, b, c, d, loc)]
    /\ cam_out = <<>>
    /\ in_dir = {} /\ in_text = <<>> /\ todo = <<>> /\ log = <<>>
    /\ OnlyCam

\* K = get_calibration_matrix_K_from_blender(cam.data), plugins/
\* camera_intrinsics.py
CallIntrinsicsK ==
    /\ exporter = "camera_intrinsics.K" /\ pc = "start"
    /\ IF cam_in.data.type # "PERSP"
       THEN pc' = "raised" /\ UNCHANGED cam_out
       ELSE /\ cam_out' = get_calibration_matrix_K_from_blender(cam_in.data)
            /\ pc' = "done"
    /\ UNCHANGED <<exporter, in_dir, in_text, todo, log, cam_in>>
    /\ UNCHANGED exceptCam

\* K = get_calibration_matrix_K_from_blender(cam.data), plugins/
\* camera_projection_matrix.py (the same text)
CallProjectionK ==
    /\ exporter = "camera_projection_matrix.K" /\ pc = "start"
    /\ IF cam_in.data.type # "PERSP"
       THEN pc' = "raised" /\ UNCHANGED cam_out
       ELSE /\ cam_out' = get_calibration_matrix_K_from_blender(cam_in.data)
            /\ pc' = "done"
    /\ UNCHANGED <<exporter, in_dir, in_text, todo, log, cam_in>>
    /\ UNCHANGED exceptCam

\* RT = get_3x4_RT_matrix_from_blender(cam), plugins/camera_extrinsics.py
CallExtrinsicsRT ==
    /\ exporter = "camera_extrinsics.RT" /\ pc = "start"
    /\ cam_out' = get_3x4_RT_matrix_from_blender(cam_in.matrix_world)
    /\ pc' = "done"
    /\ UNCHANGED <<exporter, in_dir, in_text, todo, log, cam_in>>
    /\ UNCHANGED exceptCam

\* RT = get_3x4_RT_matrix_from_blender(cam), plugins/
\* camera_projection_matrix.py (the same text)
CallProjectionRT ==
    /\ exporter = "camera_projection_matrix.RT" /\ pc = "start"
    /\ cam_out' = get_3x4_RT_matrix_from_blender(cam_in.matrix_world)
    /\ pc' = "done"
    /\ UNCHANGED <<exporter, in_dir, in_text, todo, log, cam_in>>
    /\ UNCHANGED exceptCam

NextCam ==
    \/ CallIntrinsicsK
    \/ CallProjectionK
    \/ CallExtrinsicsRT
    \/ CallProjectionRT

SpecCam == InitCam /\ [][NextCam]_vars

(***************************************************************************)
(* assemble-dataset.py.  The input directory maps each item name (a text)  *)
(* to what the item is: a batch folder holds its metadata.csv, a sequence  *)
(* of rows with the header first, and the names of its image files.  A csv *)
(* row is a sequence of fields; a field is a file name, a number or text   *)
(* that float() rejects.                                                   *)
(***************************************************************************)
MaxRows == 3

None == [shape |-> "None"]

\* float(val): the float of a number's text, ValueError for other text
float(val) ==
    IF "num" \in DOMAIN val THEN [shape |-> "float", v |-> val.num]
    ELSE [shape |-> "ValueError"]

\* The data rows of a metadata.csv: filename, m00 .. m33, focal; one row
\* without the focal field, one with text in the pose, one with text as focal.
RowChoices ==
    LET Num(v) == [num |-> v]
        Junk == [text |-> "n/a"]
        File(f) == [file |-> f]
        PoseA == [k \in 1 .. 16 |-> Num(IF k \in {1, 6, 11, 16} THEN 1 ELSE 0)]
        PoseB == [PoseA EXCEPT ![4] = Num(3)]
    IN  { <<File("a.png")>> \o PoseA \o <<Num(60)>>,
          <<File("b.png")>> \o PoseB \o <<Num(50)>>,
          <<File("a.png")>> \o PoseA,
          <<File("a.png")>> \o [PoseB EXCEPT ![7] = Junk] \o <<Num(60)>>,
          <<File("a.png")>> \o PoseB \o <<Junk>> }

\* Names of two batch folders: "Batch2" sorts before "batch1".
BatchOne == <<"b", "a", "t", "c", "h", "1">>
BatchTwo == <<"B", "a", "t", "c", "h", "2">>

RECURSIVE sorted(_)
\* sorted(S) for a set of str: by code point, a prefix before its extensions
sorted(S) ==
    IF S = {} THEN <<>>
    ELSE LET ord(c) ==
                 CASE c = "." -> 46 [] c = "1" -> 49 [] c = "2" -> 50
                   [] c = "B" -> 66 [] c = "a" -> 97 [] c = "b" -> 98
                   [] c = "c" -> 99 [] c = "d" -> 100 [] c = "h" -> 104
                   [] c = "l" -> 108 [] c = "o" -> 111 [] c = "t" -> 116
                   [] c = "x" -> 120
             less(a, b) ==
                 \E k \in 1 .. Len(b) :
                    /\ \A j \in 1 .. k - 1 : j <= Len(a) /\ a[j] = b[j]
                    /\ k > Len(a) \/ ord(a[k]) < ord(b[k])
             lo == CHOOSE a \in S : \A b \in S \ {a} : less(a, b)
         IN  <<lo>> \o sorted(S \ {lo})

\* The folders in an order that is not the sorted one: os.listdir promises
\* no order, and here it yields them descending.
get_batch_folders_unsorted(dir, text) ==
    LET lower(name) ==
            [k \in 1 .. Len(name) |-> IF name[k] = "B" THEN "b" ELSE name[k]]
        up == sorted({item \in dir :
                        /\ text[item].isdir
                        /\ Len(item) >= 5
                        /\ SubSeq(lower(item), 1, 5) = <<"b", "a", "t", "c", "h">>})
    IN  [k \in 1 .. Len(up) |-> up[Len(up) + 1 - k]]

\* get_batch_folders: the sorted folders whose lowered name starts with
\* "batch"
get_batch_folders(dir, text) ==
    LET lower(name) ==
            [k \in 1 .. Len(name) |-> IF name[k] = "B" THEN "b" ELSE name[k]]
    IN  sorted({item \in dir :
                  /\ text[item].isdir
                  /\ Len(item) >= 5
                  /\ SubSeq(lower(item), 1, 5) = <<"b", "a", "t", "c", "h">>})

\* print(f"Warning: ...")
Warning(what, batch, filename) ==
    [level |-> "Warning", what |-> what, dir |-> batch, file |-> filename]

\* np.array(pose_vals).reshape(4, 4)
reshape_4_4(vals) == [r \in 1 .. 4 |-> [c \in 1 .. 4 |-> vals[4 * (r - 1) + c]]]

\* image_to_rgb_array: the pixels of the file
image_to_rgb_array(batch_dir, filename) == [dir |-> batch_dir, file |-> filename]

\* What a batch folder may hold: a metadata.csv or none, and image files.
AsmFolderChoices ==
    { [isdir |-> TRUE, csv |-> csv, files |-> fs] :
        csv \in {NoFile} \cup
                {[shape |-> "csv", rows |-> <<<<[text |-> "filename"]>>>> \o rs] :
                    rs \in UNION {[1 .. k -> RowChoices] : k \in 0 .. MaxRows}},
        fs \in {{}, {"a.png"}, {"a.png", "b.png"}} }

\* The input directory: up to two batch folders with at most MaxRows data
\* rows together, a folder "old" and a plain file "batch.txt".
InitAsm ==
    /\ exporter = "assemble-dataset"
    /\ pc = "start"
    /\ \E names \in SUBSET {BatchOne, BatchTwo} :
       \E t \in [names -> AsmFolderChoices] :
          /\ LET n(f) == IF f.csv = NoFile THEN 0 ELSE Len(f.csv.rows) - 1
             IN  \A a \in names : \A b \in names \ {a} :
                    n(t[a]) + n(t[b]) <= MaxRows
          /\ in_dir = names \cup {<<"o", "l", "d">>,
                                  <<"b", "a", "t", "c", "h", ".", "t", "x", "t">>}
          /\ in_text = t @@ (<<"o", "l", "d">> :>
                                [isdir |-> TRUE, csv |-> NoFile, files |-> {}])
                         @@ (<<"b", "a", "t", "c", "h", ".", "t", "x", "t">> :>
                                [isdir |-> FALSE])
    /\ todo = <<>>
    /\ log = <<>>
    /\ rows_left = <<>>
    /\ images = <<>>
    /\ poses = <<>>
    /\ focal = None
    /\ all_images = <<>>
    /\ all_poses = <<>>
    /\ focal_value = None
    /\ dataset_npz = [saved |-> FALSE]
    /\ OnlyAsm

\* process_all_batches, lines 140-147: the batch folders, or none.
AsmSetup ==
    /\ exporter = "assemble-dataset" /\ pc = "start"
    /\ IF get_batch_folders(in_dir, in_text) = <<>>
       THEN /\ log' = Append(log, [level |-> "info", what |-> "No batch folders found"])
            /\ pc' = "main"
            /\ UNCHANGED todo
       ELSE /\ todo' = get_batch_folders(in_dir, in_text)
            /\ pc' = "for_batch"
            /\ UNCHANGED log
    /\ UNCHANGED <<exporter, in_dir, in_text, asmVars>>
    /\ UNCHANGED exceptAsm

\* Lines 149-151 and 100-107: the next batch; process_batch opens its
\* metadata.csv and skips the header.
AsmOpenBatch ==
    /\ exporter = "assemble-dataset" /\ pc = "for_batch" /\ todo # <<>>
    /\ LET csv == in_text[Head(todo)].csv
       IN  IF csv = NoFile
           THEN /\ pc' = "raised"
                /\ UNCHANGED rows_left
           ELSE /\ rows_left' = IF csv.rows = <<>> THEN <<>> ELSE Tail(csv.rows)
                /\ pc' = "for_row"
    /\ images' = <<>>
    /\ poses' = <<>>
    /\ focal' = None
    /\ log' = Append(log, [level |-> "info", what |-> "Processing batch folder",
                           dir |-> Head(todo)])
    /\ UNCHANGED <<exporter, in_dir, in_text, todo, all_images, all_poses,
                   focal_value, dataset_npz>>
    /\ UNCHANGED exceptAsm

\* Lines 108-127: one row of the csv reader.
AsmRow ==
    /\ exporter = "assemble-dataset" /\ pc = "for_row" /\ rows_left # <<>>
    /\ LET row      == Head(rows_left)
           batch    == Head(todo)
           filename == row[1].file
           vals     == [k \in 1 .. 16 |-> float(row[k + 1])]
           mismatch ==
               IF focal # None /\ focal # float(row[18])
               THEN Append(log, Warning("focal value mismatch", batch, filename))
               ELSE log
       IN  IF Len(row) < 18
           THEN UNCHANGED <<pc, log, images, poses, focal>>
           ELSE IF \E k \in 1 .. 16 : vals[k].shape = "ValueError"
           THEN UNCHANGED <<pc, log, images, poses, focal>>
           ELSE IF float(row[18]).shape = "ValueError"
           THEN /\ pc' = "raised"
                /\ UNCHANGED <<log, images, poses, focal>>
           ELSE /\ focal' = IF focal = None THEN float(row[18]) ELSE focal
                /\ pc' = pc
                /\ IF filename \notin in_text[batch].files
                   THEN /\ log' = mismatch \o <<Warning("not found", batch, filename)>>
                        /\ UNCHANGED <<images, poses>>
                   ELSE /\ log' = mismatch
                        /\ images' = Append(images, image_to_rgb_array(batch, filename))
                        /\ poses' = Append(poses, reshape_4_4(vals))
    /\ rows_left' = IF pc' = "raised" THEN rows_left ELSE Tail(rows_left)
    /\ UNCHANGED <<exporter, in_dir, in_text, todo, all_images, all_poses,
                   focal_value, dataset_npz>>
    /\ UNCHANGED exceptAsm

\* Lines 128 and 152-161: process_batch returns; the lists are extended and
\* the focal is compared with the one kept.
AsmBatchDone ==
    /\ exporter = "assemble-dataset" /\ pc = "for_row" /\ rows_left = <<>>
    /\ all_images' = all_images \o images
    /\ all_poses' = all_poses \o poses
    /\ focal_value' = IF focal_value = None THEN focal ELSE focal_value
    /\ log' = log \o <<[level |-> "info", what |-> "Loaded", n |-> Len(images),
                         dir |-> Head(todo)]>>
                  \o (IF focal_value # None /\ focal # focal_value
                      THEN <<Warning("focal value differs from previous value",
                                     Head(todo), "")>>
                      ELSE <<>>)
    /\ todo' = Tail(todo)
    /\ pc' = "for_batch"
    /\ UNCHANGED <<exporter, in_dir, in_text, rows_left, images, poses, focal,
                   dataset_npz>>
    /\ UNCHANGED exceptAsm

\* main, lines 171-185: nothing is saved without an image.
AsmFinish ==
    /\ exporter = "assemble-dataset"
    /\ pc = "main" \/ (pc = "for_batch" /\ todo = <<>>)
    /\ IF all_images = <<>>
       THEN /\ log' = Append(log, [level |-> "info", what |-> "No images loaded. Exiting."])
            /\ UNCHANGED dataset_npz
       ELSE /\ dataset_npz' = [saved |-> TRUE, images |-> all_images,
                               poses |-> all_poses, focal |-> <<focal_value>>]
            /\ log' = Append(log, [level |-> "info", what |-> "Dataset saved"])
    /\ pc' = "done"
    /\ UNCHANGED <<exporter, in_dir, in_text, todo, rows_left, images, poses,
                   focal, all_images, all_poses, focal_value>>
    /\ UNCHANGED exceptAsm

NextAsm ==
    \/ AsmSetup
    \/ AsmOpenBatch
    \/ AsmRow
    \/ AsmBatchDone
    \/ AsmFinish

SpecAsm == InitAsm /\ [][NextAsm]_vars

(***************************************************************************)
(* The plugins CameraIntrinsics (plugins/camera_intrinsics.py), Depth      *)
(* (plugins/depth.py), Normal (plugins/normal.py) and Mask                 *)
(* (plugins/mask.py) over one run of views: the constructor called with    *)
(* the two arguments of IPlugin.__init__, on_scene_created, then for each  *)
(* view on_camera_created and the render.                                  *)
(***************************************************************************)
\* __init__ of the class called with (cfg, plugin_cfg): the attributes it
\* sets.  Mask.__init__ takes one argument, and handed one it passes one to
\* IPlugin.__init__, which takes two: it raises either way.
plugin_init(class) ==
    CASE class = "CameraIntrinsics" -> [_written |-> FALSE]
      [] class = "Depth"  -> [_rl |-> None, _last_input_socket |-> None]
      [] class = "Normal" -> [_rl |-> None, _last_input_socket |-> None]
      [] class = "Mask"   -> [raised |-> "TypeError"]

\* the slot a new CompositorNodeOutputFile comes with
DefaultSlot == [id |-> 0, path |-> Name(<<>>, "Image"), link |-> None]

\* f"{index:03d}_depth_", f"{index:03d}_normal_"
SlotName(index, label) == Name(Fmt03d(index), label)

\* bpy.data.cameras.new and create_camera: a perspective camera; lens and
\* shift are what the hooks called before this one left in it
ViewCamChoices ==
    { [DefaultCamData EXCEPT !.lens = l, !.shift_x = sx, !.resolution_x = 32,
                             !.resolution_y = 24] :
        l \in {FInt(35), FInt(50)}, sx \in {FInt(0), Frac(1, 4)} }

InitPlug ==
    /\ exporter \in {"CameraIntrinsics", "Depth", "Normal", "Mask"}
    /\ pc = "start"
    /\ in_dir = {} /\ in_text = <<>> /\ todo = <<>> /\ log = <<>>
    /\ plug_self = <<>>
    /\ file_slots = <<>>
    /\ slots_made = 0
    /\ \E n \in 1 .. MaxRenders : view_cams \in [1 .. n -> ViewCamChoices]
    /\ plug_i = 0
    /\ written = <<>>
    /\ OnlyPlug

\* new_plugin_class(cfg, plugin_cfg)
PlugConstruct ==
    /\ exporter \in {"CameraIntrinsics", "Depth", "Normal", "Mask"}
    /\ pc = "start"
    /\ plug_self' = plugin_init(exporter)
    /\ pc' = IF "raised" \in DOMAIN plugin_init(exporter)
             THEN "raised" ELSE "on_scene_created"
    /\ UNCHANGED <<exporter, in_dir, in_text, todo, log, file_slots, slots_made,
                   view_cams, plug_i, written>>
    /\ UNCHANGED exceptPlug

\* Depth.on_scene_created, Normal.on_scene_created: the render-layer node
\* and a new file-output node; IPlugin.on_scene_created for CameraIntrinsics.
PlugOnSceneCreated ==
    /\ exporter \in {"CameraIntrinsics", "Depth", "Normal"}
    /\ pc = "on_scene_created"
    /\ IF exporter = "CameraIntrinsics"
       THEN UNCHANGED <<plug_self, file_slots>>
       ELSE /\ plug_self' = [plug_self EXCEPT !._rl = [node |-> "Render Layers"]]
            /\ file_slots' = <<DefaultSlot>>
    /\ pc' = "on_camera_created"
    /\ UNCHANGED <<exporter, in_dir, in_text, todo, log, slots_made, view_cams,
                   plug_i, written>>
    /\ UNCHANGED exceptPlug

\* The file is written on every call.
IntrinsicsOnCameraCreated_every_view ==
    /\ exporter = "CameraIntrinsics" /\ pc = "on_camera_created"
    /\ written' =
          Append(written,
                 [file |-> IntrinsicsName, view |-> plug_i,
                  content |-> get_calibration_matrix_K_from_blender(
                                  view_cams[plug_i + 1])])
    /\ log' = Append(log, [level |-> "CameraIntrinsics",
                           what |-> "3x3 intrinsics written"])
    /\ plug_self' = [plug_self EXCEPT !._written = TRUE]
    /\ pc' = "render"
    /\ UNCHANGED <<exporter, in_dir, in_text, todo, file_slots, slots_made,
                   view_cams, plug_i>>
    /\ UNCHANGED exceptPlug

\* CameraIntrinsics.on_camera_created: returns at once when _written is set.
IntrinsicsOnCameraCreated ==
    /\ exporter = "CameraIntrinsics" /\ pc = "on_camera_created"
    /\ IF plug_self._written
       THEN UNCHANGED <<plug_self, written, log>>
       ELSE /\ written' =
                  Append(written,
                         [file |-> IntrinsicsName, view |-> plug_i,
                          content |-> get_calibration_matrix_K_from_blender(
                                          view_cams[plug_i + 1])])
            /\ log' = Append(log, [level |-> "CameraIntrinsics",
                                   what |-> "3x3 intrinsics written"])
            /\ plug_self' = [plug_self EXCEPT !._written = TRUE]
    /\ pc' = "render"
    /\ UNCHANGED <<exporter, in_dir, in_text, todo, file_slots, slots_made,
                   view_cams, plug_i>>
    /\ UNCHANGED exceptPlug

\* The slot of the view before stays in the node.
DepthOnCameraCreated_keeps_slot ==
    /\ exporter = "Depth" /\ pc = "on_camera_created"
    /\ file_slots' =
          Append(file_slots,
                 [id |-> slots_made + 1, path |-> SlotName(plug_i, "_depth_"),
                  link |-> [from |-> "Normalize", of |-> "Depth"]])
    /\ plug_self' = [plug_self EXCEPT !._last_input_socket = [id |-> slots_made + 1]]
    /\ slots_made' = slots_made + 1
    /\ pc' = "render"
    /\ UNCHANGED <<exporter, in_dir, in_text, todo, log, view_cams, plug_i,
                   written>>
    /\ UNCHANGED exceptPlug

\* Depth.on_camera_created
DepthOnCameraCreated ==
    /\ exporter = "Depth" /\ pc = "on_camera_created"
    /\ file_slots' =
          Append(IF plug_self._last_input_socket # None
                 THEN SelectSeq(file_slots,
                                LAMBDA s : s.id # plug_self._last_input_socket.id)
                 ELSE file_slots,
                 [id |-> slots_made + 1, path |-> SlotName(plug_i, "_depth_"),
                  link |-> [from |-> "Normalize", of |-> "Depth"]])
    /\ plug_self' = [plug_self EXCEPT !._last_input_socket = [id |-> slots_made + 1]]
    /\ slots_made' = slots_made + 1
    /\ pc' = "render"
    /\ UNCHANGED <<exporter, in_dir, in_text, todo, log, view_cams, plug_i,
                   written>>
    /\ UNCHANGED exceptPlug

\* Normal.on_camera_created
NormalOnCameraCreated ==
    /\ exporter = "Normal" /\ pc = "on_camera_created"
    /\ file_slots' =
          Append(IF plug_self._last_input_socket # None
                 THEN SelectSeq(file_slots,
                                LAMBDA s : s.id # plug_self._last_input_socket.id)
                 ELSE file_slots,
                 [id |-> slots_made + 1, path |-> SlotName(plug_i, "_normal_"),
                  link |-> [from |-> "Render Layers", of |-> "Normal"]])
    /\ plug_self' = [plug_self EXCEPT !._last_input_socket = [id |-> slots_made + 1]]
    /\ slots_made' = slots_made + 1
    /\ pc' = "render"
    /\ UNCHANGED <<exporter, in_dir, in_text, todo, log, view_cams, plug_i,
                   written>>
    /\ UNCHANGED exceptPlug

\* render_image(scene, f"{i:03d}_render.png"): the image, and one file for
\* each linked slot of the file-output node; then the next view.
PlugRender ==
    /\ exporter \in {"CameraIntrinsics", "Depth", "Normal"} /\ pc = "render"
    /\ LET linked == SelectSeq(file_slots, LAMBDA s : s.link # None)
       IN  written' =
              written
              \o <<[file |-> Name(Fmt03d(plug_i), RenderRest), view |-> plug_i]>>
              \o [k \in 1 .. Len(linked) |->
                     [file |-> [slot |-> linked[k].path, frame |-> 1],
                      view |-> plug_i]]
    /\ plug_i' = plug_i + 1
    /\ pc' = IF plug_i + 1 = Len(view_cams) THEN "done" ELSE "on_camera_created"
    /\ UNCHANGED <<exporter, in_dir, in_text, todo, log, plug_self, file_slots,
                   slots_made, view_cams>>
    /\ UNCHANGED exceptPlug

NextPlug ==
    \/ PlugConstruct
    \/ PlugOnSceneCreated
    \/ IntrinsicsOnCameraCreated
    \/ DepthOnCameraCreated
    \/ NormalOnCameraCreated
    \/ PlugRender

SpecPlug == InitPlug /\ [][NextPlug]_vars

(***************************************************************************)
(* float: IEEE 754 binary64, as Python computes with it.  A natural number *)
(* is a sequence of bits, lowest first and without high zeros; a float     *)
(* x >= 0 is a record [m, e] that stands for m * 2^e, where m has 53 bits  *)
(* or is zero.  Every operation computes the exact result and rounds it to *)
(* the nearest float, ties to the even one.  Negative numbers, infinities, *)
(* NaN and subnormal numbers are not modelled.                             *)
(***************************************************************************)
RECURSIVE BNorm(_)
\* without high zeros
BNorm(a) ==
    IF a = <<>> \/ a[Len(a)] = 1 THEN a ELSE BNorm(SubSeq(a, 1, Len(a) - 1))

RECURSIVE BOfInt(_)
\* the bits of an int n >= 0
BOfInt(n) == IF n = 0 THEN <<>> ELSE <<n % 2>> \o BOfInt(n \div 2)

RECURSIVE BToInt(_)
BToInt(a) == IF a = <<>> THEN 0 ELSE a[1] + 2 * BToInt(Tail(a))

RECURSIVE BAddC(_, _, _)
BAddC(a, b, c) ==
    IF a = <<>> /\ b = <<>> THEN (IF c = 1 THEN <<1>> ELSE <<>>)
    ELSE LET x == IF a = <<>> THEN 0 ELSE a[1]
             y == IF b = <<>> THEN 0 ELSE b[1]
         IN  <<(x + y + c) % 2>>
             \o BAddC(IF a = <<>> THEN a ELSE Tail(a),
                      IF b = <<>> THEN b ELSE Tail(b), (x + y + c) \div 2)

BAdd(a, b) == BAddC(a, b, 0)

RECURSIVE BSubC(_, _, _)
BSubC(a, b, c) ==
    IF a = <<>> THEN <<>>
    ELSE LET y == IF b = <<>> THEN 0 ELSE b[1]
             d == a[1] - y - c
         IN  <<d % 2>>
             \o BSubC(Tail(a), IF b = <<>> THEN b ELSE Tail(b),
                      IF d < 0 THEN 1 ELSE 0)

\* a - b for a >= b
BSub(a, b) == BNorm(BSubC(a, b, 0))

\* a < b
BLess(a, b) ==
    \/ Len(a) < Len(b)
    \/ /\ Len(a) = Len(b)
       /\ \E k \in 1 .. Len(a) :
             /\ a[k] < b[k]
             /\ \A j \in k + 1 .. Len(a) : a[j] = b[j]

\* a * 2^k
BShl(a, k) == IF a = <<>> THEN a ELSE [j \in 1 .. k |-> 0] \o a

RECURSIVE BMul(_, _)
BMul(a, b) ==
    IF b = <<>> THEN <<>>
    ELSE BAdd(IF b[1] = 1 THEN a ELSE <<>>, BShl(BMul(a, Tail(b)), 1))

RECURSIVE BDivBits(_, _, _)
\* Long division: the k >= 1 highest bits of the quotient of r by b, highest
\* first, for r < 2 * b, and what is left of r, doubled at each bit
BDivBits(r, b, k) ==
    IF k = 1
    THEN IF BLess(r, b) THEN [q |-> <<0>>, r |-> BShl(r, 1)]
         ELSE [q |-> <<1>>, r |-> BShl(BSub(r, b), 1)]
    ELSE LET first  == BDivBits(r, b, k \div 2)
             second == BDivBits(first.r, b, k - k \div 2)
         IN  [q |-> first.q \o second.q, r |-> second.r]

\* The float nearest to m * 2^e, or to a number just above it when sticky.
FlRound(m, e, sticky) ==
    IF m = <<>> THEN [m |-> <<>>, e |-> 0]
    ELSE IF Len(m) <= 53
    THEN [m |-> BShl(m, 53 - Len(m)), e |-> e - (53 - Len(m))]
    ELSE LET k    == Len(m) - 53
             hi   == SubSeq(m, k + 1, Len(m))
             more == sticky \/ \E j \in 1 .. k - 1 : m[j] = 1
             up   == m[k] = 1 /\ (more \/ hi[1] = 1)
             r    == IF up THEN BAdd(hi, <<1>>) ELSE hi
         IN  IF Len(r) = 54
             THEN [m |-> SubSeq(r, 2, 54), e |-> e + k + 1]
             ELSE [m |-> r, e |-> e + k]

\* float(n) for an int n >= 0
FlOfInt(n) == FlRound(BOfInt(n), 0, FALSE)

\* x * n for an int n >= 0
FlMulInt(x, n) == FlRound(BMul(x.m, BOfInt(n)), x.e, FALSE)

\* x / y for y > 0
FlDiv(x, y) ==
    LET d == BDivBits(x.m, y.m, 57)
    IN  FlRound(BNorm([k \in 1 .. 57 |-> d.q[58 - k]]), x.e - y.e - 56, d.r # <<>>)

\* the naturals of x and y over their common exponent
FlAligned(x, y) ==
    LET e == IF x.m = <<>> THEN y.e ELSE IF y.m = <<>> THEN x.e
             ELSE IF x.e < y.e THEN x.e ELSE y.e
    IN  [e |-> e, x |-> BShl(x.m, x.e - e), y |-> BShl(y.m, y.e - e)]

\* x + y
FlAdd(x, y) == FlRound(BAdd(FlAligned(x, y).x, FlAligned(x, y).y), FlAligned(x, y).e, FALSE)

\* x - y for x >= y
FlSub(x, y) == FlRound(BSub(FlAligned(x, y).x, FlAligned(x, y).y), FlAligned(x, y).e, FALSE)

\* x < y
FlLess(x, y) == BLess(FlAligned(x, y).x, FlAligned(x, y).y)

\* max(1, int(x)): the fraction is cut off.
FlTruncated(x) ==
    IF x.m = <<>> \/ x.e >= 0 THEN BToInt(BShl(x.m, x.e))
    ELSE IF -x.e >= Len(x.m) \/ BToInt(SubSeq(x.m, 1 - x.e, Len(x.m))) = 0 THEN 1
    ELSE BToInt(SubSeq(x.m, 1 - x.e, Len(x.m)))

\* math.ceil(x), an int
FlCeil(x) ==
    IF x.m = <<>> THEN 0
    ELSE IF x.e >= 0 THEN BToInt(BShl(x.m, x.e))
    ELSE IF -x.e >= Len(x.m) THEN 1
    ELSE BToInt(SubSeq(x.m, 1 - x.e, Len(x.m)))
         + (IF \E j \in 1 .. -x.e : x.m[j] = 1 THEN 1 ELSE 0)

\* math.pi = 0x1.921fb54442d18p+1
Pi ==
    LET hex == <<8, 1, 13, 2, 4, 4, 4, 5, 11, 15, 1, 2, 9, 1>>
    IN  [m |-> BNorm([k \in 1 .. 56 |->
                        (hex[(k - 1) \div 4 + 1] \div (2 ^ ((k - 1) % 4))) % 2]),
         e |-> -51]

(***************************************************************************)
(* next_location_on_sphere of scripts/uniform_hemisphere_points/           *)
(* uniform_hemisphere_points.py and of generate-batch.py (the same text),  *)
(* called on floats and ints.                                              *)
(***************************************************************************)
\* the (inc, azi) returned, or the ValueError raised
next_location_on_sphere(inc_start, inc_stop, inc_step, i, n) ==
    IF ~(0 <= i /\ i < n) THEN [raised |-> "0 <= i < N must hold"]
    ELSE IF ~FlLess(inc_start, FlDiv(Pi, FlOfInt(2)))
    THEN [raised |-> "0 <= inc_start < (math.pi / 2) must hold"]
    ELSE IF ~(FlLess(FlOfInt(0), inc_stop)
              /\ ~FlLess(FlDiv(Pi, FlOfInt(2)), inc_stop))
    THEN [raised |-> "0 < inc_stop <= (math.pi / 2) must hold"]
    ELSE IF ~FlLess(inc_start, inc_stop)
    THEN [raised |-> "inc_start < inc_stop must hold"]
    ELSE IF ~FlLess(FlOfInt(0), inc_step)
    THEN [raised |-> "inc_step > 0 must hold"]
    ELSE LET n_bands == FlCeil(FlDiv(FlSub(inc_stop, inc_start), inc_step))
             locations_per_slice == (n + n_bands - 1) \div n_bands
             current_slice == i \div locations_per_slice
         IN  [inc |-> FlAdd(inc_start, FlMulInt(inc_step, current_slice)),
              azi |-> FlDiv(FlMulInt(FlMulInt(Pi, 2), i + 1),
                            FlOfInt(locations_per_slice))]

\* safe_eval of the expressions "0", "math.pi/6", "math.pi/4", "math.pi/2"
\* and "3*math.pi/6"
IncChoices ==
    { FlOfInt(0), FlDiv(Pi, FlOfInt(6)), FlDiv(Pi, FlOfInt(4)),
      FlDiv(Pi, FlOfInt(2)), FlDiv(FlMulInt(Pi, 3), FlOfInt(6)) }

InitSphere ==
    /\ exporter \in {"uniform_hemisphere_points", "uniform_camera_location"}
    /\ pc = "start"
    /\ in_dir = {} /\ in_text = <<>> /\ todo = <<>> /\ log = <<>>
    /\ \E a, b, c \in IncChoices, n \in 1 .. MaxRenders, i \in 0 .. MaxRenders :
          /\ i <= n
          /\ loc_in = [inc_start |-> a, inc_stop |-> b, inc_step |-> c,
                       i |-> i, N |-> n]
    /\ loc_out = <<>>
    /\ OnlySphere

\* uniform_hemisphere_points.py, main: next_location_on_sphere(...)
CallScriptsNextLocation ==
    /\ exporter = "uniform_hemisphere_points" /\ pc = "start"
    /\ loc_out' = next_location_on_sphere(loc_in.inc_start, loc_in.inc_stop,
                                          loc_in.inc_step, loc_in.i, loc_in.N)
    /\ pc' = IF "raised" \in DOMAIN loc_out' THEN "raised" ELSE "returned"
    /\ UNCHANGED <<exporter, in_dir, in_text, todo, log, loc_in>>
    /\ UNCHANGED exceptSphere

\* generate-batch.py, uniform_camera_location: next_location_on_sphere(...)
CallBatchNextLocation ==
    /\ exporter = "uniform_camera_location" /\ pc = "start"
    /\ loc_out' = next_location_on_sphere(loc_in.inc_start, loc_in.inc_stop,
                                          loc_in.inc_step, loc_in.i, loc_in.N)
    /\ pc' = IF "raised" \in DOMAIN loc_out' THEN "raised" ELSE "returned"
    /\ UNCHANGED <<exporter, in_dir, in_text, todo, log, loc_in>>
    /\ UNCHANGED exceptSphere

NextSphere ==
    \/ CallScriptsNextLocation
    \/ CallBatchNextLocation

SpecSphere == InitSphere /\ [][NextSphere]_vars

(***************************************************************************)
(* The projection file of one view: CameraProjectionMatrix writes it into  *)
(* the batch directory, and each exporter that reads projection files      *)
(* looks for it there (src/plugins/camera_projection_matrix.py and the     *)
(* four exporters).                                                        *)
(***************************************************************************)
\* view indices: one, two and three digits, and one beyond the padding
ProjIndexChoices == {0, 1, 9, 10, 99, 100, 999, 1000}

\* the exporters that read projection files
ProjReaders == {"to_colmap", "to_idr_dataset", "to_nsvf_dataset",
                "to_nsvf_tanks_and_temples_dataset"}

\* the other files generate-batch and its plugins leave for view i
ViewFiles(i) ==
    {Name(Fmt03d(i), RenderRest), Name(Fmt03d(i), MaskRest),
     Name(Fmt03d(i), MaskedRest)}

InitProj ==
    /\ exporter = "CameraProjectionMatrix"
    /\ pc = "on_camera_created"
    /\ proj_index \in ProjIndexChoices
    /\ in_dir = ViewFiles(proj_index)
    /\ in_text = <<>> /\ todo = <<>> /\ log = <<>>
    /\ proj_seen = <<>>
    /\ OnlyProj

\* CameraProjectionMatrix.on_camera_created, lines 122-132.
ProjectionOnCameraCreated ==
    /\ exporter = "CameraProjectionMatrix" /\ pc = "on_camera_created"
    /\ in_dir' = in_dir \cup {Name(Fmt03d(proj_index), ProjTxtRest)}
    /\ pc' = "written"
    /\ UNCHANGED <<exporter, in_text, todo, log, proj_index, proj_seen>>
    /\ UNCHANGED exceptProj

\* what a reader has when it has gone through the directory: reader -> the
\* indices it holds a projection file for
ProjSeenBy(reader, S) ==
    (reader :> S) @@ proj_seen

\* scripts/to_colmap, main lines 89-96: entries[idx]['proj']
ColmapReadsProjection ==
    /\ exporter = "CameraProjectionMatrix" /\ pc = "written"
    /\ "to_colmap" \notin DOMAIN proj_seen
    /\ LET entries == Entries(in_dir, "scripts")
       IN  proj_seen' = ProjSeenBy("to_colmap",
               {idx \in DOMAIN entries : "proj" \in DOMAIN entries[idx]})
    /\ UNCHANGED <<exporter, pc, in_dir, in_text, todo, log, proj_index>>
    /\ UNCHANGED exceptProj

\* scripts/to_idr_dataset, collect_files lines 47-64: table[idx]['proj']
IdrReadsProjection ==
    /\ exporter = "CameraProjectionMatrix" /\ pc = "written"
    /\ "to_idr_dataset" \notin DOMAIN proj_seen
    /\ LET table == collect_files(in_dir)
       IN  proj_seen' = ProjSeenBy("to_idr_dataset",
               {idx \in DOMAIN table : "proj" \in DOMAIN table[idx]})
    /\ UNCHANGED <<exporter, pc, in_dir, in_text, todo, log, proj_index>>
    /\ UNCHANGED exceptProj

\* scripts/to_nsvf_dataset, main lines 112-123: proj_json.exists() for the
\* indices of the masked images
NsvfReadsProjection ==
    /\ exporter = "CameraProjectionMatrix" /\ pc = "written"
    /\ "to_nsvf_dataset" \notin DOMAIN proj_seen
    /\ proj_seen' = ProjSeenBy("to_nsvf_dataset",
           {idx \in DOMAIN mask_map(in_dir) :
                Name(Fmt03d(idx), ProjJsonRest) \in in_dir})
    /\ UNCHANGED <<exporter, pc, in_dir, in_text, todo, log, proj_index>>
    /\ UNCHANGED exceptProj

\* compat/to_nsvf_dataset (Tanks and Temples), gather_views lines 56-71
TTReadsProjection ==
    /\ exporter = "CameraProjectionMatrix" /\ pc = "written"
    /\ "to_nsvf_tanks_and_temples_dataset" \notin DOMAIN proj_seen
    /\ proj_seen' = ProjSeenBy("to_nsvf_tanks_and_temples_dataset",
           DOMAIN gather_views(in_dir))
    /\ UNCHANGED <<exporter, pc, in_dir, in_text, todo, log, proj_index>>
    /\ UNCHANGED exceptProj

NextProj ==
    \/ ProjectionOnCameraCreated
    \/ ColmapReadsProjection
    \/ IdrReadsProjection
    \/ NsvfReadsProjection
    \/ TTReadsProjection

SpecProj == InitProj /\ [][NextProj]_vars

(***************************************************************************)
(* Successive runs of the Tanks and Temples exporter on one input into one *)
(* output directory: main() makes rgb/ and pose/ with exist_ok=True and    *)
(* removes nothing, so a run starts with the files the runs before left.   *)
(***************************************************************************)
MaxRerunViews == 3

InitRerun ==
    /\ InitNsvf
    /\ exporter = "tt"
    /\ \A f \in in_dir :
          f.digits # <<>> => ParseInt(f.digits) < MaxRerunViews

\* Lines 99-107 of a following run: a new process (new output stream, new
\* draw of the split) that finds rgb/, pose/ and their files as they are.
TTRunAgain ==
    /\ exporter = "tt" /\ pc \in {"done", "exit", "raised"}
    /\ pc' = "start"
    /\ log' = <<>>
    /\ todo' = <<>>
    /\ train_set' = {} /\ test_set' = {}
    /\ UNCHANGED <<exporter, in_dir, in_text, split, rgb_dir, pose_dir, out_top>>
    /\ UNCHANGED exceptNsvf

NextRerun ==
    \/ TTSetup
    \/ TTView
    \/ TTFinish
    \/ TTRunAgain

SpecRerun == InitRerun /\ [][NextRerun]_vars

(***************************************************************************)
(* Vocabulary of the COLMAP claims, stated on the input directory and the  *)
(* written files.                                                          *)
(***************************************************************************)
Range(sq) == {sq[k] : k \in DOMAIN sq}

\* indices for which the batch holds an RGB, a mask or the exporter's pose file
FoundViews ==
    {ParseInt(f.digits) :
        f \in {g \in in_dir : g.rest \in {RenderRest, MaskRest, PoseRest(exporter)}}}

HasFile(idx, rest) ==
    \E f \in in_dir : f.rest = rest /\ ParseInt(f.digits) = idx

\* a complete view: both its RGB file and its pose file
CompleteView(idx) == HasFile(idx, RenderRest) /\ HasFile(idx, PoseRest(exporter))

PoseFileOf(idx) ==
    CHOOSE f \in in_dir : f.rest = PoseRest(exporter) /\ ParseInt(f.digits) = idx

ImagesTxt == sparse["images.txt"]
NBlocks == (Len(ImagesTxt) - 1) \div 2
Block(k) == ImagesTxt[2 * k]
BlockView(k) == ParseInt(Block(k).name.digits)

\* views the loop has finished with
Visited == FoundViews \ Range(todo)

WarnedViews == SelectSeq(log, LAMBDA l : l.level = "WARN")

\* C1: in both COLMAP exporters images.txt holds, after its header, exactly
\* one block per complete view the loop has passed, in ascending view-index
\* order, each block a data line followed by a blank line; every incomplete
\* view passed has been skipped with exactly one warning; and the run never
\* stops at an incomplete view (it stops early only on a complete view whose
\* pose file is malformed), so at the end all complete views are exported.
C1_OneBlockPerCompleteView ==
    "images.txt" \in DOMAIN sparse =>
        LET done == SortedSeq({i \in Visited : CompleteView(i)})
            skipped == SortedSeq({i \in Visited : ~CompleteView(i)})
        IN  /\ ImagesTxt[1] = CommentLine
            /\ Len(ImagesTxt) = 1 + 2 * Len(done)
            /\ \A k \in 1 .. Len(done) :
                  /\ Block(k).kind = "data"
                  /\ BlockView(k) = done[k]
                  /\ ImagesTxt[2 * k + 1] = BlankLine
            /\ WarnedViews = [k \in 1 .. Len(skipped) |-> Warn(skipped[k])]
            /\ (pc = "raised" =>
                  /\ todo # <<>>
                  /\ CompleteView(Head(todo))
                  /\ in_text[PoseFileOf(Head(todo))] = BadShape)
            /\ (pc = "done" => Visited = FoundViews)

\* C1 witness: a finished run on views {0,1,2} where view 1 lacks its pose
\* file: two blocks (views 0 and 2) and one warning.
C1_Witness ==
    /\ pc = "done"
    /\ FoundViews = {0, 1, 2}
    /\ ~CompleteView(1) /\ HasFile(1, RenderRest)
    /\ NBlocks = 2 /\ BlockView(1) = 0 /\ BlockView(2) = 2
    /\ WarnedViews = <<Warn(1)>>

ImageRows == SelectSeq(db_rows, LAMBDA r : r.table = "images")

\* C2: in compat/to_colmap every block of images.txt starts with the id that
\* was handed to db.add_image for the same image name, and the ids are
\* 0,1,2,... in block order, the blocks being in ascending view-index order
\* (skipped views take no id).
C2_DbIdsMatchImagesTxt ==
    (exporter = "compat" /\ "images.txt" \in DOMAIN sparse) =>
        /\ \A k \in 1 .. NBlocks :
              /\ Block(k).image_id = k - 1
              /\ \E j \in 1 .. Len(ImageRows) :
                    ImageRows[j].name = Block(k).name
              /\ \A j \in 1 .. Len(ImageRows) :
                    ImageRows[j].name = Block(k).name
                        => ImageRows[j].image_id = Block(k).image_id
              /\ \A h \in 1 .. k - 1 : BlockView(h) < BlockView(k)
        /\ \A j \in 1 .. Len(ImageRows) : ImageRows[j].image_id = j - 1

\* C2 witness: a committed compat run in which an exported view follows a
\* skipped one, so its id is smaller than its view index.
C2_Witness ==
    /\ exporter = "compat" /\ pc = "done" /\ db_state = "committed"
    /\ NBlocks = 2
    /\ BlockView(2) = 2 /\ Block(2).image_id = 1
    /\ WarnedViews # <<>>

\* C3 (as claimed): in both COLMAP exporters every exported view idx has its
\* RGB in images/NNN.png, NNN.png is the NAME of its images.txt line, and a
\* view with a mask has masks/NNN.png.png.
C3_ThreeDigitNames ==
    "images.txt" \in DOMAIN sparse =>
        \A k \in 1 .. NBlocks :
            LET idx == BlockView(k)
            IN  /\ Name(Fmt03d(idx), ".png") \in img_dir
                /\ Block(k).name = Name(Fmt03d(idx), ".png")
                /\ (HasFile(idx, MaskRest) =>
                        Name(Fmt03d(idx), ".png.png") \in mask_dir)

\* C4 (as claimed): every run of either COLMAP exporter that reaches the view
\* loop has an empty points3D.txt next to cameras.txt and images.txt.
C4_EmptyPoints3D ==
    pc \in {"loop", "done"} =>
        /\ {"cameras.txt", "images.txt", "points3D.txt"} \subseteq DOMAIN sparse
        /\ sparse["points3D.txt"] = <<>>

\* C5 (as claimed): the translation of every images.txt line equals the
\* translation column of that view's input pose matrix (as rationals:
\* a/b = c/d iff a*d = c*b).
C5_TranslationUnchanged ==
    "images.txt" \in DOMAIN sparse =>
        \A k \in 1 .. NBlocks :
            LET M == in_text[PoseFileOf(BlockView(k))]
                t == Block(k).t
            IN  \A i \in 1 .. 3 : t.v[i] * M.den = M.m[i][4] * t.den

(***************************************************************************)
(* Vocabulary of the quaternion claims.                                    *)
(***************************************************************************)
RotTrace == rot_in.m[1][1] + rot_in.m[2][2] + rot_in.m[3][3]

\* a rotation by 180 degrees has trace -1
HalfTurn == RotTrace = -rot_in.den

\* 4 * den * (q_i * q_i)
QSq(i) == q_out[i].sgn * q_out[i].sgn * q_out[i].sq

IsSquare(n) == \E r \in 0 .. n : r * r = n
Root(n) == CHOOSE r \in 0 .. n : r * r = n

\* 4 * den * (q_i * q_j), defined when sq_i * sq_j is a perfect square
QProd(i, j) == q_out[i].sgn * q_out[j].sgn * Root(q_out[i].sq * q_out[j].sq)

\* 4 * den * den * (the rotation matrix of the quaternion q_out), by the
\* usual formula (w, x, y, z are components 1..4):
\*   1-2yy-2zz   2xy-2wz    2zx+2wy
\*   2xy+2wz     1-2xx-2zz  2yz-2wx
\*   2zx-2wy     2yz+2wx    1-2xx-2yy
MatrixOfQOut ==
    LET one == 4 * rot_in.den
        s == rot_in.den
    IN  << << s * (one - 2 * QSq(3) - 2 * QSq(4)),
              s * (2 * QProd(2, 3) - 2 * QProd(1, 4)),
              s * (2 * QProd(4, 2) + 2 * QProd(1, 3)) >>,
           << s * (2 * QProd(2, 3) + 2 * QProd(1, 4)),
              s * (one - 2 * QSq(2) - 2 * QSq(4)),
              s * (2 * QProd(3, 4) - 2 * QProd(1, 2)) >>,
           << s * (2 * QProd(4, 2) - 2 * QProd(1, 3)),
              s * (2 * QProd(3, 4) + 2 * QProd(1, 2)),
              s * (one - 2 * QSq(2) - 2 * QSq(3)) >> >>

\* C6 (as claimed): the quaternion returned for any rotation matrix, the
\* rotations by 180 degrees included, has unit norm:
\* qw^2 + qx^2 + qy^2 + qz^2 = 1, i.e. the squares times 4*den sum to 4*den.
C6_UnitNorm ==
    pc = "done" => QSq(1) + QSq(2) + QSq(3) + QSq(4) = 4 * rot_in.den

\* C7: for every rotation matrix R that is not a rotation by 180 degrees, the
\* rotation matrix of the returned quaternion is R again (compared entry by
\* entry, both sides scaled by 4 * den * den).
C7_RoundTrip ==
    (pc = "done" /\ ~HalfTurn) =>
        /\ \A i, j \in 1 .. 4 : IsSquare(q_out[i].sq * q_out[j].sq)
        /\ \A i, j \in 1 .. 3 :
              MatrixOfQOut[i][j] = 4 * rot_in.den * rot_in.m[i][j]

\* C7 witness: a rotation about a skew axis by an angle that is neither 0 nor
\* 180 degrees, with components of both signs.
C7_Witness ==
    /\ pc = "done" /\ ~HalfTurn
    /\ rot_in.den = 7
    /\ q_out[2].sgn = -1 /\ q_out[3].sgn = 1 /\ q_out[4].sgn = -1

(***************************************************************************)
(* Vocabulary of the NSVF claims, stated on the input directory and the    *)
(* written files.                                                          *)
(***************************************************************************)
\* views of the batch having both a masked image and the exporter's pose file
IndicesOf(rest) == {ParseInt(f.digits) : f \in {g \in in_dir : g.rest = rest}}

NsvfComplete == IndicesOf(MaskedRest) \cap IndicesOf(PoseRest(exporter))

\* the Tanks&Temples exporter has drawn its split
SplitDrawn ==
    exporter = "tt" /\ "intrinsics.txt" \in out_top /\ NsvfComplete # {}

\* k is split * n rounded to the nearest integer, a tie going to the even one
NearestEven(k, n, sp) ==
    LET twice == 2 * (k * sp.den - n * sp.num)
    IN  /\ -sp.den <= twice /\ twice <= sp.den
        /\ (twice = sp.den \/ twice = -sp.den) => k % 2 = 0

\* C8: once the Tanks&Temples exporter has drawn its split, train_set and
\* test_set are disjoint, their union is the set of complete views, train_set
\* has round(split * n_total) members and test_set the other
\* n_total - n_train (7 and 3 for split 0.7 and 10 views).
C8_SplitPartition ==
    SplitDrawn =>
        LET n_total == Cardinality(NsvfComplete)
        IN  /\ train_set \cap test_set = {}
            /\ train_set \cup test_set = NsvfComplete
            /\ NearestEven(Cardinality(train_set), n_total, split)
            /\ Cardinality(test_set) = n_total - Cardinality(train_set)
            /\ (split = Frac(7, 10) /\ n_total = 10) =>
                  (Cardinality(train_set) = 7 /\ Cardinality(test_set) = 3)

\* C8 witness: a finished run on ten complete views with split 0.7.
C8_Witness ==
    /\ exporter = "tt" /\ pc = "done"
    /\ split = Frac(7, 10)
    /\ Cardinality(NsvfComplete) = 10
    /\ Cardinality(train_set) = 7 /\ Cardinality(test_set) = 3

\* C9 (as claimed): every view the Tanks&Temples exporter exported is written
\* as rgb/<p>_<NNN>.png and pose/<p>_<NNN>.txt, NNN its index zero-padded to
\* three digits, p = 0 exactly for the train views and 1 for the test views.
C9_PaddedSplitTags ==
    (exporter = "tt" /\ pc = "done") =>
        \A idx \in train_set \cup test_set :
            LET p == IF idx \in train_set THEN "0_" ELSE "1_"
            IN  /\ TagName(p, Fmt03d(idx), ".png") \in rgb_dir
                /\ TagName(p, Fmt03d(idx), ".txt") \in pose_dir

\* C10 (as claimed): in both NSVF exporters a run on a batch without
\* bounding_box.txt ends with a fatal error and writes nothing to rgb/ or
\* pose/, whereas an absent projection file never ends the run: a run that
\* has a bounding box ends early only for another reason.
C10_BboxFatalProjectionSkipped ==
    exporter \in {"tt", "nsvf"} =>
        /\ (BboxName \notin in_dir /\ pc # "start") =>
              (pc = "exit" /\ rgb_dir = {} /\ pose_dir = {})
        /\ (BboxName \in in_dir /\ pc = "exit") =>
              \/ split # <<>> /\ ~SplitAccepted(split)
              \/ IntrinsicsName \notin in_dir
              \/ exporter = "tt" /\ NsvfComplete = {}
              \/ IndicesOf(MaskedRest) = {}
        /\ (BboxName \in in_dir /\ pc = "raised") =>
              \E f \in DOMAIN in_text : in_text[f] = BadShape

(***************************************************************************)
(* Vocabulary of the IDR claims, stated on the input directory and the     *)
(* written files.                                                          *)
(***************************************************************************)
\* view indices for which the input holds an image, a mask or a projection
IdrFoundViews ==
    {ParseInt(f.digits) :
        f \in {g \in in_dir : g.rest \in {RenderRest, MaskRest, ProjJsonRest}}}

\* a complete view of the IDR exporter: image, mask and projection
IdrCompleteView(idx) ==
    HasFile(idx, RenderRest) /\ HasFile(idx, MaskRest) /\ HasFile(idx, ProjJsonRest)

IdrProjOf(idx) ==
    CHOOSE f \in in_dir : f.rest = ProjJsonRest /\ ParseInt(f.digits) = idx

IdrVisited == IdrFoundViews \ Range(todo)

IdrKeysOf(S) ==
    {[key |-> "world_mat", digits |-> DecDigits(i)] : i \in S}
        \cup {[key |-> "scale_mat", digits |-> DecDigits(i)] : i \in S}

IdrRunning == exporter = "idr" /\ pc \in {"loop", "done", "raised"}

\* C11: in the IDR exporter the keys collected for cameras.npz are exactly
\* world_mat_<idx> and scale_mat_<idx> for the complete views (image, mask
\* and projection) the loop has passed, and the saved archive holds exactly
\* the keys of all complete views, each world_mat being the projection file
\* lifted to 4x4; every incomplete view passed is skipped with one warning,
\* has no key and no file in image/ or mask/.  (The run stops early only on
\* a complete view whose projection file is malformed, and then saves no
\* archive.)
C11_KeysOfCompleteViews ==
    IdrRunning =>
        LET done    == {i \in IdrVisited : IdrCompleteView(i)}
            skipped == SortedSeq({i \in IdrVisited : ~IdrCompleteView(i)})
        IN  /\ DOMAIN world_mats \cup DOMAIN scale_mats = IdrKeysOf(done)
            /\ DOMAIN world_mats \cap DOMAIN scale_mats = {}
            /\ cameras_npz.saved =>
                  /\ pc = "done"
                  /\ DOMAIN cameras_npz.arrays =
                        IdrKeysOf({i \in IdrFoundViews : IdrCompleteView(i)})
                  /\ \A i \in done :
                        LET W == cameras_npz.arrays[[key |-> "world_mat",
                                                     digits |-> DecDigits(i)]]
                            P == in_text[IdrProjOf(i)]
                        IN  /\ W.shape = "4x4" /\ W.den = P.den
                            /\ \A r \in 1 .. 3 : W.m[r] = P.m[r]
                            /\ W.m[4] = <<0, 0, 0, P.den>>
            /\ WarnedViews = [k \in 1 .. Len(skipped) |-> Warn(skipped[k])]
            /\ \A k \in 1 .. Len(skipped) :
                  [digits |-> ZeroPad(DecDigits(skipped[k]), 3), rest |-> ".png"]
                      \notin (idr_image_dir \cup idr_mask_dir)
            /\ (pc = "raised" =>
                  /\ todo # <<>>
                  /\ IdrCompleteView(Head(todo))
                  /\ in_text[IdrProjOf(Head(todo))] = BadShape)
            /\ (pc = "done" => cameras_npz.saved /\ IdrVisited = IdrFoundViews)

\* C11 witness: a finished run on views {0,1,2} where view 1 lacks only its
\* mask: the archive holds the four keys of views 0 and 2, view 1 was warned
\* about and has no file in image/ or mask/.
C11_Witness ==
    /\ exporter = "idr" /\ pc = "done"
    /\ IdrFoundViews = {0, 1, 2}
    /\ HasFile(1, RenderRest) /\ HasFile(1, ProjJsonRest) /\ ~HasFile(1, MaskRest)
    /\ DOMAIN cameras_npz.arrays = IdrKeysOf({0, 2})
    /\ WarnedViews = <<Warn(1)>>
    /\ Cardinality(idr_image_dir) = 2 /\ Cardinality(idr_mask_dir) = 2

\* C12: the IDR exporter fails (no success report, no cameras archive)
\* whenever the input holds no complete view, also when files of some view
\* indices exist but each index lacks an image, a mask or a projection.
C12_FailsWithoutCompleteView ==
    (exporter = "idr" /\ ~\E i \in IdrFoundViews : IdrCompleteView(i)) =>
        (pc # "done" /\ ~cameras_npz.saved /\ Ok \notin Range(log))

\* C13: in the IDR exporter every scale_mat_<idx> entry of a run, collected or
\* saved, is the same matrix: the one read from normalization_matrix.json
\* when the input directory holds that file, the 4x4 identity otherwise.
C13_SharedScaleMat ==
    IdrRunning =>
        LET expected ==
                IF [digits |-> <<>>, rest |-> "normalization_matrix.json"] \in in_dir
                THEN in_text[[digits |-> <<>>, rest |-> "normalization_matrix.json"]]
                ELSE [shape |-> "4x4", den |-> 1,
                      m |-> << <<1, 0, 0, 0>>, <<0, 1, 0, 0>>,
                               <<0, 0, 1, 0>>, <<0, 0, 0, 1>> >>]
        IN  /\ \A k \in DOMAIN scale_mats : scale_mats[k] = expected
            /\ cameras_npz.saved =>
                  \A k \in DOMAIN cameras_npz.arrays :
                      k.key = "scale_mat" => cameras_npz.arrays[k] = expected

\* C13 witness: a finished run with normalization_matrix.json = diag(1/2,
\* 1/2, 1/2, 1) and two complete views, both scale_mat entries saved.
C13_Witness ==
    /\ exporter = "idr" /\ pc = "done"
    /\ [digits |-> <<>>, rest |-> "normalization_matrix.json"] \in in_dir
    /\ in_text[[digits |-> <<>>, rest |-> "normalization_matrix.json"]].den = 2
    /\ Cardinality({k \in DOMAIN cameras_npz.arrays : k.key = "scale_mat"}) = 2

(***************************************************************************)
(* Vocabulary of the claims on the scene plugins, stated on the scene, the *)
(* configuration, the log and the written files.                           *)
(***************************************************************************)
SceneReturned ==
    exporter \in {"BoundingBox", "NormalizationMatrix", "MaskedRGB"} /\ pc = "returned"

\* the plugin skipped object k: BoundingBox and NormalizationMatrix log it,
\* MaskedRGB leaves its pass index alone
SkippedObject(k) ==
    IF exporter = "MaskedRGB" THEN pass_index[k] = 0
    ELSE [level |-> "INFO", what |-> "skip", name |-> scene_objects[k].name]
             \in Range(log)

\* the configured exclude_pattern, as a regular expression, matches the name
\* of object k; without a configured pattern nothing matches
PatternMatchesObject(k) ==
    /\ "exclude_pattern" \in DOMAIN plugin_cfg
    /\ ReSearch(plugin_cfg["exclude_pattern"], scene_objects[k].name)

\* the bounding box of the objects that were not skipped
BoxObjects == {k \in DOMAIN scene_objects : ~SkippedObject(k)}
BoxLo(axis) ==
    CHOOSE v \in {scene_objects[k].lo[axis] : k \in BoxObjects} :
        \A k \in BoxObjects : v <= scene_objects[k].lo[axis]
BoxHi(axis) ==
    CHOOSE v \in {scene_objects[k].hi[axis] : k \in BoxObjects} :
        \A k \in BoxObjects : v >= scene_objects[k].hi[axis]
BoxCorners ==
    {<<x, y, z>> : x \in {BoxLo(1), BoxHi(1)}, y \in {BoxLo(2), BoxHi(2)},
                   z \in {BoxLo(3), BoxHi(3)}}

NormFile == [digits |-> <<>>, rest |-> "normalization_matrix.json"]

\* C14: in BoundingBox, NormalizationMatrix and MaskedRGB a scene object (a
\* mesh, for MaskedRGB) is skipped exactly when the configured
\* exclude_pattern, as a regular expression, matches the object's name
\* (pattern "Plane" excludes "Plane.001"), and without a configured pattern
\* no object is skipped.
C14_SkippedIffPatternMatchesName ==
    SceneReturned =>
        \A k \in DOMAIN scene_objects :
            (exporter = "MaskedRGB" => scene_objects[k].type = "MESH") =>
                (SkippedObject(k) <=> PatternMatchesObject(k))

\* C15: when BoundingBox.on_scene_created or
\* NormalizationMatrix.on_scene_created has skipped every object of the scene
\* (or the scene is empty), it has written no file, has logged its warning
\* and has returned; neither ever raises.
C15_NothingWrittenWithoutObjects ==
    exporter \in {"BoundingBox", "NormalizationMatrix"} =>
        /\ pc \in {"start", "returned"}
        /\ (pc = "returned" /\ \A k \in DOMAIN scene_objects : SkippedObject(k)) =>
              /\ DOMAIN out_files = {}
              /\ Len(SelectSeq(log, LAMBDA l : l.level = "WARNING")) = 1
              /\ log[Len(log)] =
                    [level |-> "WARNING",
                     who |-> IF exporter = "BoundingBox" THEN "BBox"
                             ELSE "NormalizationMatrix"]

\* C15 witness: NormalizationMatrix has returned from a scene of two objects,
\* both skipped, with its warning and without a file.
C15_Witness ==
    /\ exporter = "NormalizationMatrix" /\ pc = "returned"
    /\ Len(scene_objects) = 2
    /\ \A k \in DOMAIN scene_objects : SkippedObject(k)
    /\ DOMAIN out_files = {}
    /\ log[Len(log)].level = "WARNING"

\* C16: every corner of the bounding box NormalizationMatrix computed,
\* multiplied by the written matrix diag(s,s,s,1), is at distance at most 1
\* from the origin: s*s * (x*x + y*y + z*z) <= 1.
C16_CornersInUnitSphere ==
    (exporter = "NormalizationMatrix" /\ NormFile \in DOMAIN out_files) =>
        \A c \in BoxCorners :
            out_files[NormFile].s_sq.num * (c[1]*c[1] + c[2]*c[2] + c[3]*c[3])
                <= out_files[NormFile].s_sq.den

\* C17: the matrix NormalizationMatrix writes is diag(s,s,s,1) with s = 1/R,
\* R*R = hx*hx + hy*hy + hz*hz for the half-extents of the bounding box, and
\* R = 1 exactly when all three half-extents are zero; for the box
\* (-1,-1,-1,1,1,1), s*s = 1/3.
C17_ScaleIsInverseHalfDiagonal ==
    (exporter = "NormalizationMatrix" /\ NormFile \in DOMAIN out_files) =>
        LET dx == BoxHi(1) - BoxLo(1)
            dy == BoxHi(2) - BoxLo(2)
            dz == BoxHi(3) - BoxLo(3)
            ss == out_files[NormFile].s_sq
        IN  /\ out_files[NormFile].shape = "diag(s,s,s,1)"
            /\ ss.num > 0 /\ ss.den > 0
            /\ IF dx = 0 /\ dy = 0 /\ dz = 0
               THEN ss.num = ss.den
               ELSE ss.num * (dx*dx + dy*dy + dz*dz) = 4 * ss.den
            /\ (\A a \in 1 .. 3 : BoxLo(a) = -1 /\ BoxHi(a) = 1) =>
                  3 * ss.num = ss.den

\* C17 witness: the matrix written for a box with one zero extent, the plane
\* (-2,-2,0,2,2,0): R*R = 8, s*s = 1/8.
C17_Witness ==
    /\ exporter = "NormalizationMatrix" /\ pc = "returned"
    /\ NormFile \in DOMAIN out_files
    /\ <<BoxLo(1), BoxLo(2), BoxLo(3)>> = <<-2, -2, 0>>
    /\ <<BoxHi(1), BoxHi(2), BoxHi(3)>> = <<2, 2, 0>>
    /\ 8 * out_files[NormFile].s_sq.num = out_files[NormFile].s_sq.den

(***************************************************************************)
(* Vocabulary of the claim on the hook order of generate-batch.py.         *)
(***************************************************************************)
NPlugins == Len(plugins)
CallsPerView == 2 * NPlugins + 1
NCallsOfRun == NPlugins + N * CallsPerView + NPlugins

\* the j-th hook or render of a full run with the loaded plugins and N views
CallOfRun(j) ==
    IF j <= NPlugins
    THEN [hook |-> "on_scene_created", plugin |-> plugins[j], index |-> -1]
    ELSE IF j <= NPlugins + N * CallsPerView
    THEN LET r == j - NPlugins - 1
             i == r \div CallsPerView
             o == r % CallsPerView
         IN  IF o < NPlugins
             THEN [hook |-> "on_camera_created", plugin |-> plugins[o + 1],
                   index |-> i]
             ELSE IF o = NPlugins
             THEN [hook |-> "render_image", index |-> i]
             ELSE [hook |-> "on_another_render_completed",
                   plugin |-> plugins[o - NPlugins], index |-> i]
    ELSE [hook |-> "on_rendering_completed",
          plugin |-> plugins[j - NPlugins - N * CallsPerView], index |-> -1]

\* C18: in generate-batch main with N >= 1 views the hooks and renders run in
\* this order and no other: on_scene_created once on every loaded plugin;
\* then for i = 0 .. N-1 in ascending order on_camera_created(i) on every
\* plugin, the render of view i, on_another_render_completed(i) on every
\* plugin; then on_rendering_completed once on every plugin.  What has run
\* so far is always a prefix of that sequence, and a finished run has run
\* all of it.
C18_HookOrder ==
    (exporter = "generate-batch" /\ N >= 1) =>
        /\ Len(calls) <= NCallsOfRun
        /\ \A j \in 1 .. Len(calls) : calls[j] = CallOfRun(j)
        /\ pc # "raised"
        /\ (pc = "done" => Len(calls) = NCallsOfRun)

\* C18 witness: a finished run with two loaded plugins and three views:
\* 2 + 3 * 5 + 2 hooks and renders, the last render being that of view 2.
C18_Witness ==
    /\ exporter = "generate-batch" /\ pc = "done"
    /\ Len(plugins) = 2 /\ N = 3
    /\ Len(calls) = 19
    /\ calls[15] = [hook |-> "render_image", index |-> 2]
    /\ calls[3].hook = "on_camera_created" /\ calls[3].index = 0

(***************************************************************************)
(* Vocabulary of the claims on the camera matrix helpers.                  *)
(***************************************************************************)
KDone ==
    /\ exporter \in {"camera_intrinsics.K", "camera_projection_matrix.K"}
    /\ pc = "done"

\* the same camera with resolution_x and resolution_y doubled and
\* resolution_percentage halved
Rescaled(d) ==
    [d EXCEPT !.resolution_x = 2 * @, !.resolution_y = 2 * @,
              !.resolution_percentage = @ \div 2]

\* C19: for a perspective camera get_calibration_matrix_K_from_blender gives
\* the same fx, fy, cx and cy after resolution_x and resolution_y are doubled
\* and resolution_percentage is halved, in every sensor-fit mode and for every
\* pixel aspect ratio and shift.
C19_PercentageTimesResolution ==
    (KDone /\ cam_in.data.resolution_percentage % 2 = 0) =>
        LET K2 == get_calibration_matrix_K_from_blender(Rescaled(cam_in.data))
        IN  /\ K2.fx = cam_out.fx /\ K2.fy = cam_out.fy
            /\ K2.cx = cam_out.cx /\ K2.cy = cam_out.cy

\* C19 witness: K of a 50 mm lens on a 36 mm sensor, AUTO fit, 32 x 24 at
\* 50 %, shifts 1/4 and -1/8: fx = fy = 200/9, cx = cy = 4.
C19_Witness ==
    /\ KDone
    /\ cam_in.data.sensor_fit = "AUTO"
    /\ cam_in.data.resolution_percentage = 50
    /\ cam_in.data.resolution_x = 32 /\ cam_in.data.resolution_y = 24
    /\ cam_in.data.shift_x.num # 0 /\ cam_in.data.shift_y.num # 0
    /\ cam_out.fx = [num |-> 200, den |-> 9] /\ cam_out.fy = [num |-> 200, den |-> 9]
    /\ cam_out.cx = [num |-> 4, den |-> 1] /\ cam_out.cy = [num |-> 4, den |-> 1]

RTDone ==
    /\ exporter \in {"camera_extrinsics.RT", "camera_projection_matrix.RT"}
    /\ pc = "done"

\* F = diag(1, -1, -1)
FlipOf(r) == IF r = 1 THEN 1 ELSE -1

\* C20: get_3x4_RT_matrix_from_blender returns [F R^T | F (-(R^T) location)]
\* for the rotation R and the location of the camera's world matrix and
\* F = diag(1,-1,-1); multiplying the result by F from the left and inverting
\* the rigid transform [A | b] to [A^T | -(A^T) b] gives R and the location
\* back.  (World matrix W.m / W.den, result O.m / O.den; equations are
\* cross-multiplied.)
C20_ExtrinsicsRoundTrip ==
    RTDone =>
        LET W == cam_in.matrix_world
            O == cam_out
            A == [r \in 1 .. 3 |-> [c \in 1 .. 3 |-> FlipOf(r) * O.m[r][c]]]
            b == [r \in 1 .. 3 |-> FlipOf(r) * O.m[r][4]]
        IN  /\ O.shape = "3x4" /\ O.den > 0
            /\ \A r, c \in 1 .. 3 :
                  O.m[r][c] * W.den = FlipOf(r) * W.m[c][r] * O.den
            /\ \A r \in 1 .. 3 :
                  O.m[r][4] * W.den * W.den =
                      FlipOf(r) * (-(W.m[1][r] * W.m[1][4] + W.m[2][r] * W.m[2][4]
                                     + W.m[3][r] * W.m[3][4])) * O.den
            /\ \A r, c \in 1 .. 3 : A[c][r] * W.den = W.m[r][c] * O.den
            /\ \A r \in 1 .. 3 :
                  -(A[1][r] * b[1] + A[2][r] * b[2] + A[3][r] * b[3]) * W.den
                      = W.m[r][4] * O.den * O.den

\* C20 witness: the result for a camera at (1, 2, 3) whose rotation matrix is
\* not symmetric and has entries that are not integers.
C20_Witness ==
    /\ RTDone
    /\ cam_in.matrix_world.den = 7
    /\ cam_in.matrix_world.m[1][2] # cam_in.matrix_world.m[2][1]
    /\ \A r \in 1 .. 3 : cam_in.matrix_world.m[r][4] = 7 * r
    /\ cam_out.den = 49

(***************************************************************************)
(* Vocabulary of the assemble-dataset claims.                              *)
(***************************************************************************)
AsmRunning == exporter = "assemble-dataset"

\* the batch folders of the input in the order of their names
AsmBatchOrder ==
    sorted({item \in in_dir :
                   /\ in_text[item].isdir
                   /\ Len(item) >= 5
                   /\ item[1] \in {"b", "B"}
                   /\ SubSeq(item, 2, 5) = <<"a", "t", "c", "h">>})

\* a row that has its 18 fields and numbers as pose
AsmRowParses(row) ==
    Len(row) >= 18 /\ \A k \in 2 .. 17 : "num" \in DOMAIN row[k]

\* the rows of a batch whose image is loaded, in row order
AsmLoadedRows(batch) ==
    IF in_text[batch].csv = NoFile THEN <<>>
    ELSE SelectSeq(Tail(in_text[batch].csv.rows),
                   LAMBDA row : AsmRowParses(row)
                                /\ row[1].file \in in_text[batch].files)

\* image and pose of a row of a batch
AsmPairOf(batch, row) ==
    [image |-> [dir |-> batch, file |-> row[1].file],
     pose  |-> [r \in 1 .. 4 |-> [c \in 1 .. 4 |->
                   [shape |-> "float", v |-> row[1 + 4 * (r - 1) + c].num]]]]

RECURSIVE AsmExpected(_)
\* the pairs of the loaded rows of the batches bs, batch after batch
AsmExpected(bs) ==
    IF bs = <<>> THEN <<>>
    ELSE LET rows == AsmLoadedRows(Head(bs))
         IN  [k \in 1 .. Len(rows) |-> AsmPairOf(Head(bs), rows[k])]
             \o AsmExpected(Tail(bs))

AsmPairs(imgs, ps) == [k \in 1 .. Len(imgs) |-> [image |-> imgs[k], pose |-> ps[k]]]

AsmIsPrefix(a, b) == Len(a) <= Len(b) /\ a = SubSeq(b, 1, Len(a))

\* C21 (as stated): a focal that differs from an earlier one never aborts
\* the run and never drops a row, and the focal of the archive is that of
\* the first row, of the first batch in name order, whose image is loaded.
C21_FocalOfFirstLoadedRow ==
    AsmRunning =>
       /\ pc = "raised" =>
             \/ in_text[Head(todo)].csv = NoFile
             \/ float(Head(rows_left)[18]).shape = "ValueError"
       /\ pc = "done" =>
             AsmPairs(all_images, all_poses) = AsmExpected(AsmBatchOrder)
       /\ (/\ pc = "done" /\ dataset_npz.saved
           /\ AsmBatchOrder # <<>>
           /\ AsmLoadedRows(AsmBatchOrder[1]) # <<>>)
          => dataset_npz.focal =
                <<float(AsmLoadedRows(AsmBatchOrder[1])[1][18])>>

\* C30: the image list and the pose list are always equally long and pair
\* up row by row, in batch-name order then row order, with exactly the rows
\* that have 18 fields, a pose of numbers and an existing image; the archive
\* holds these lists, and no archive is written without an image.
C30_ImagesAndPosesAligned ==
    AsmRunning =>
       /\ Len(images) = Len(poses)
       /\ Len(all_images) = Len(all_poses)
       /\ AsmIsPrefix(AsmPairs(all_images, all_poses), AsmExpected(AsmBatchOrder))
       /\ pc = "for_row" =>
             AsmIsPrefix(AsmPairs(all_images \o images, all_poses \o poses),
                         AsmExpected(AsmBatchOrder))
       /\ pc = "done" =>
             /\ AsmPairs(all_images, all_poses) = AsmExpected(AsmBatchOrder)
             /\ dataset_npz.saved <=> all_images # <<>>
             /\ dataset_npz.saved =>
                   /\ dataset_npz.images = all_images
                   /\ dataset_npz.poses = all_poses
       /\ pc # "done" => ~dataset_npz.saved

\* Both batches gave an image to the archive, and a row that adds nothing
\* was passed over.
C30_Witness ==
    /\ AsmRunning /\ pc = "done" /\ dataset_npz.saved
    /\ \E j, k \in 1 .. Len(dataset_npz.images) :
          /\ j < k
          /\ dataset_npz.images[j].dir = BatchTwo
          /\ dataset_npz.images[k].dir = BatchOne
    /\ \/ \E w \in 1 .. Len(log) : log[w].what = "not found"
       \/ \E b \in {BatchOne, BatchTwo} :
             \E r \in 2 .. Len(in_text[b].csv.rows) :
                ~AsmRowParses(in_text[b].csv.rows[r])

(***************************************************************************)
(* Vocabulary of the claims about plugins over a run of views.             *)
(***************************************************************************)
\* the writes of camera_intrinsics.txt so far
IntrinsicsWrites == SelectSeq(written, LAMBDA w : w.file = IntrinsicsName)

\* on_camera_created has been called for some view
CameraHookCalled == pc \in {"render", "done"} \/ plug_i >= 1

\* the slots of the file-output node that file_slots.new made
PluginSlots == SelectSeq(file_slots, LAMBDA s : s # DefaultSlot)

\* C22: over a run of N >= 1 views CameraIntrinsics writes
\* camera_intrinsics.txt exactly once, in the on_camera_created call of the
\* first view and from that view's camera; no later call writes it again,
\* whatever the camera of the later view is.
C22_IntrinsicsWrittenOnce ==
    exporter = "CameraIntrinsics" =>
       /\ Len(view_cams) >= 1
       /\ ~CameraHookCalled => IntrinsicsWrites = <<>>
       /\ CameraHookCalled =>
             IntrinsicsWrites =
                <<[file |-> IntrinsicsName, view |-> 0,
                   content |-> get_calibration_matrix_K_from_blender(view_cams[1])]>>

\* A run of three views ended; the second camera has other intrinsics than
\* the first, and the file was written once.
C22_Witness ==
    /\ exporter = "CameraIntrinsics" /\ pc = "done" /\ plug_i = 3
    /\ get_calibration_matrix_K_from_blender(view_cams[2])
          # get_calibration_matrix_K_from_blender(view_cams[1])
    /\ Len(IntrinsicsWrites) = 1

SphereExample ==
    /\ exporter \in {"uniform_hemisphere_points", "uniform_camera_location"}
    /\ loc_in.inc_start = FlDiv(Pi, FlOfInt(6))
    /\ loc_in.inc_stop = FlDiv(FlMulInt(Pi, 3), FlOfInt(6))
    /\ loc_in.inc_step = FlDiv(Pi, FlOfInt(6))
    /\ loc_in.N = 3 /\ loc_in.i < 3

\* k * math.pi / 6
SixthsOfPi(k) == FlDiv(FlMulInt(Pi, k), FlOfInt(6))

\* C23: with inc_start = pi/6, inc_stop = 3*pi/6, inc_step = pi/6 and N = 3
\* the call for index i returns the inclination (i + 1) * pi / 6, so the
\* indices 0, 1, 2 lie on three different inclinations, one on each.
C23_ThreeLatitudes ==
    SphereExample =>
       /\ pc # "raised"
       /\ pc = "returned" => loc_out.inc = SixthsOfPi(loc_in.i + 1)
       /\ SixthsOfPi(1) # SixthsOfPi(2) /\ SixthsOfPi(2) # SixthsOfPi(3)
       /\ SixthsOfPi(1) # SixthsOfPi(3)

\* The call for index 1 of the example has returned, in generate-batch.
C23_Witness ==
    /\ SphereExample /\ exporter = "uniform_camera_location"
    /\ pc = "returned" /\ loc_in.i = 1
    /\ loc_out.inc = SixthsOfPi(2)

(***************************************************************************)
(* Vocabulary of the claim about the projection file name.                 *)
(***************************************************************************)
\* C25: the file CameraProjectionMatrix writes for index i is found, under
\* index i, by every exporter that reads projection files: scripts/to_colmap,
\* scripts/to_idr_dataset, scripts/to_nsvf_dataset and the Tanks and Temples
\* exporter.
C25_ProjectionNameRecognised ==
    exporter = "CameraProjectionMatrix" =>
        \A reader \in DOMAIN proj_seen : proj_seen[reader] = {proj_index}

(***************************************************************************)
(* The output directories of the NSVF exporters after a run.               *)
(***************************************************************************)
\* the tags of the files of an output directory: the names less the suffix
TagsOf(dir) == {[prefix |-> f.prefix, digits |-> f.digits] : f \in dir}

\* C26: when a run of either NSVF exporter into an empty output directory
\* has ended with its [OK] report, rgb/ and pose/ hold the same tags: every
\* rgb/<tag>.png has its pose/<tag>.txt and the other way round, also for an
\* input in which views lack their projection file.
C26_SameTagsInRgbAndPose ==
    (exporter \in {"tt", "nsvf"} /\ pc = "done") =>
        TagsOf(rgb_dir) = TagsOf(pose_dir)

\* the view indices that rgb/ or pose/ hold under a prefix
IndicesUnder(prefix) ==
    {ParseInt(f.digits) : f \in {g \in rgb_dir \cup pose_dir : g.prefix = prefix}}

\* C27: when a run of the Tanks and Temples exporter has ended with its
\* report, after however many runs before it on the same input into the same
\* output directory, no view index is in rgb/ or pose/ both under 0_ and
\* under 1_, and the number of indices under 0_ is round(split * n_total).
C27_RerunKeepsPartition ==
    (exporter = "tt" /\ pc = "done") =>
        /\ IndicesUnder("0_") \cap IndicesUnder("1_") = {}
        /\ Cardinality(IndicesUnder("0_"))
              = PyRound(Cardinality(NsvfComplete) * split.num, split.den)

(***************************************************************************)
(* The database and images.txt of compat/to_colmap at the end of a run.    *)
(***************************************************************************)
\* image ids of the rows of preloaded.db that outlive the process: the rows
\* added are kept by db.commit() (line 166) only
CommittedImageIds ==
    IF db_state = "committed"
    THEN {ImageRows[j].image_id : j \in 1 .. Len(ImageRows)}
    ELSE {}

\* image ids that have a block in images.txt
BlockImageIds ==
    IF "images.txt" \in DOMAIN sparse
    THEN {Block(k).image_id : k \in 1 .. NBlocks}
    ELSE {}

\* C28: when a run of compat/to_colmap has ended, with its report or because
\* loading a view's pose file raised, the image ids committed to preloaded.db
\* are the image ids that have a block in images.txt; the views exported
\* before the failing one have their files in images/ and no view after the
\* failing one has been exported.
C28_DbMatchesImagesTxtAtEnd ==
    (exporter = "compat" /\ pc \in {"done", "raised"}) =>
        /\ CommittedImageIds = BlockImageIds
        /\ \A k \in 1 .. (IF "images.txt" \in DOMAIN sparse THEN NBlocks ELSE 0) :
              Block(k).name \in img_dir
        /\ (pc = "raised" /\ todo # <<>>) =>
              \A idx \in Range(Tail(todo)) :
                  Name(Fmt03d(idx), RenderRest) \notin img_dir

(***************************************************************************)
(* The plugin classes of src/plugins under discover_plugins.               *)
(***************************************************************************)
\* the modules of src/plugins, one plugin class each: BoundingBox,
\* CameraExtrinsics, CameraIntrinsics, CameraProjectionMatrix, Depth, Mask,
\* MaskedRGB, Normal, NormalizationMatrix
RepositoryPlugins ==
    {"bounding_box", "camera_extrinsics", "camera_intrinsics",
     "camera_projection_matrix", "depth", "mask", "masked", "normal",
     "normalization_matrix"}

\* instances of a module's class among the loaded plugins
InstancesOf(name) == {j \in DOMAIN plugins : plugins[j] = name}

\* C29: once discover_plugins has returned, every plugin class of src/plugins
\* found in the plugins directory has exactly one instance among the loaded
\* plugins, the ones that get the hooks of main, unless the body of its own
\* constructor raises.
C29_RepositoryPluginsLoaded ==
    (exporter = "generate-batch" /\ pc # "start") =>
        \A k \in DOMAIN plugin_dir :
            LET mod == plugin_dir[k]
            IN  (/\ mod.name \in RepositoryPlugins
                 /\ mod.init # "cfg -> super().__init__(cfg)")
                    => Cardinality(InstancesOf(mod.name)) = 1

====
